---- MODULE Spec2Model ----
(***************************************************************************)
(* A model of bvx-kit: bit-packed voxel chunks, spatial keys, the hash     *)
(* grid behind VoxelWorld, the face-geometry solver, the index expander    *)
(* and the DDA raycaster.                                                  *)
(*                                                                         *)
(* Number representation.  JavaScript bitwise operators work on 32-bit     *)
(* two's complement integers.  Values that stay below 2^31 are kept as     *)
(* integers and the operators are defined bit by bit (BitAnd, BitOr,       *)
(* BitXor, Shl32, Shr).  The 32-bit words of a Uint32Array (BitArray) are  *)
(* kept as the set of their 1-bit positions, a subset of 0..31.            *)
(***************************************************************************)
EXTENDS Integers, Sequences, FiniteSets, TLC

VARIABLES
    key,        \* the spatial key object under test (MortonKey / LinearKey)
    dict,       \* HashGrid._dict of the VoxelWorld: bucket index -> list of nodes
    layer,      \* per chunk object: BVXLayer._bitVoxels.elements (128 words)
    expect,     \* history: the bitvoxels the caller's operations left on, per chunk
    indices,    \* VoxelGeometry._geometryIndices of the face geometry object
    tmpKey,     \* VoxelFaceGeometry.TMP_MK (also the key object of TMP_CHUNK)
    last,       \* the operation that ran last: its name, its chunk, the voxel of a
                \* fill or empty, and the result of a remove
    rc          \* the raycast in progress: its locals and loop position

vars == <<key, dict, layer, expect, indices, tmpKey, last, rc>>

-----------------------------------------------------------------------------
(* BitOps and the 32-bit integer operators of the language                 *)

\* a & b, for integers of which at least one is >= 0 (two's complement)
RECURSIVE BitAnd(_, _)
BitAnd(a, b) ==
    IF a = 0 \/ b = 0 THEN 0
    ELSE (a % 2) * (b % 2) + 2 * BitAnd(a \div 2, b \div 2)

\* a | b, for a, b >= 0
RECURSIVE BitOr(_, _)
BitOr(a, b) ==
    IF a = 0 THEN b
    ELSE IF b = 0 THEN a
    ELSE (IF a % 2 = 1 \/ b % 2 = 1 THEN 1 ELSE 0) + 2 * BitOr(a \div 2, b \div 2)

\* a ^ b, for a, b >= 0
RECURSIVE BitXor(_, _)
BitXor(a, b) ==
    IF a = 0 THEN b
    ELSE IF b = 0 THEN a
    ELSE ((a + b) % 2) + 2 * BitXor(a \div 2, b \div 2)

\* a << n on 32 bits, for a >= 0 and 0 <= n <= 30: the bits shifted past bit 31
\* are dropped and bit 31 is the sign
Shl32(a, n) ==
    LET lo == (a % (2 ^ (31 - n))) * (2 ^ n)
        sb == (a \div (2 ^ (31 - n))) % 2
    IN  IF sb = 1 THEN (lo - 2 ^ 30) - 2 ^ 30 ELSE lo

\* a >> n (arithmetic shift right)
Shr(a, n) == a \div (2 ^ n)

\* BitOps.maskForBits: ~(0xFFFFFFFF << bits); the shift count is taken modulo 32,
\* and -1 << n is -(2^n), whose complement is 2^n - 1 (2^31 - 1 for n = 31)
maskForBits(bits) ==
    LET n == bits % 32
    IN  IF n = 31 THEN ((2 ^ 30) - 1) + (2 ^ 30) ELSE (2 ^ n) - 1

\* the 32-bit words of a typed array, as sets of bit positions
Word == SUBSET (0 .. 31)
ZeroWord == {}
FullWord == 0 .. 31

\* BitOps.bitAt on a word: (data >> pos) & 1
bitAt(data, pos) == IF (pos % 32) \in data THEN 1 ELSE 0

\* BitOps.setBitAt on a word: data | 1 << pos
setBitAt(data, pos) == data \cup {pos % 32}

\* BitOps.unsetBitAt on a word: data & ~(1 << pos)
unsetBitAt(data, pos) == data \ {pos % 32}

\* BitOps.toggleBitAt on a word: data ^ (1 << pos)
toggleBitAt(data, pos) ==
    IF (pos % 32) \in data THEN data \ {pos % 32} ELSE data \cup {pos % 32}

\* BitOps.popCount on a word
popCount(data) == Cardinality(data)

\* BitOps.popCount on a small non-negative integer
RECURSIVE popCountInt(_)
popCountInt(n) == IF n = 0 THEN 0 ELSE (n % 2) + popCountInt(n \div 2)

\* BitOps.setBit on a small non-negative integer: (data & ~mask) | ((bit << pos) & mask)
setBit(data, pos, bit) ==
    LET mask == 2 ^ pos
        cleared == data - BitAnd(data, mask)
    IN  BitOr(cleared, BitAnd(bit * (2 ^ pos), mask))

-----------------------------------------------------------------------------
(* MortonKey                                                               *)

MortonKEY_MASK == maskForBits(10)
X3_MASK == 153391689
Y3_MASK == 306783378
Z3_MASK == 613566756
XY3_MASK == BitOr(X3_MASK, Y3_MASK)
XZ3_MASK == BitOr(X3_MASK, Z3_MASK)
YZ3_MASK == BitOr(Y3_MASK, Z3_MASK)

\* the masks of the shift ladder; 0xff0000ff is -16776961 as a 32-bit integer
LADDER_10 == 1023
LADDER_8 == -16776961
LADDER_4 == 50393103
LADDER_2 == 51130563
LADDER_1 == 153391689

\* MortonKey._EncodePart
EncodePart(n) ==
    LET n0 == BitAnd(n, LADDER_10)
        n1 == BitAnd(BitXor(n0, Shl32(n0, 16)), LADDER_8)
        n2 == BitAnd(BitXor(n1, Shl32(n1, 8)), LADDER_4)
        n3 == BitAnd(BitXor(n2, Shl32(n2, 4)), LADDER_2)
        n4 == BitAnd(BitXor(n3, Shl32(n3, 2)), LADDER_1)
    IN  n4

\* MortonKey._DecodePart
DecodePart(n) ==
    LET n0 == BitAnd(n, LADDER_1)
        n1 == BitAnd(BitXor(n0, Shr(n0, 2)), LADDER_2)
        n2 == BitAnd(BitXor(n1, Shr(n1, 4)), LADDER_4)
        n3 == BitAnd(BitXor(n2, Shr(n2, 8)), LADDER_8)
        n4 == BitAnd(BitXor(n3, Shr(n3, 16)), LADDER_10)
    IN  n4

\* a range-checking constructor, as in the earlier MortonKey.from: -1 stands for the throw
MortonFromChecked(x, y, z) ==
    IF x < 0 \/ x > 1023 \/ y < 0 \/ y > 1023 \/ z < 0 \/ z > 1023 THEN -1
    ELSE Shl32(EncodePart(z), 2) + Shl32(EncodePart(y), 1) + EncodePart(x)

\* MortonKey.from: the scalar stored in _key
MortonFrom(x, y, z) ==
    LET mask == MortonKEY_MASK
        cx == EncodePart(BitAnd(x, mask))
        cy == EncodePart(BitAnd(y, mask))
        cz == EncodePart(BitAnd(z, mask))
    IN  Shl32(cz, 2) + Shl32(cy, 1) + cx

\* an accessor that reads the x lane for every axis
MortonAxisNoShift(k, axis) == DecodePart(k)

\* MortonKey.x / .y / .z (axis 0, 1, 2)
MortonAxis(k, axis) == DecodePart(Shr(k, axis))

MortonX(k) == MortonAxis(k, 0)
MortonY(k) == MortonAxis(k, 1)
MortonZ(k) == MortonAxis(k, 2)

-----------------------------------------------------------------------------
(* LinearKey                                                               *)

LinearKEY_MASK == maskForBits(10)

\* LinearKey._Encode
LinearEncode(x, y, z) ==
    LET mask == LinearKEY_MASK
        cx == BitAnd(x, mask)
        cy == BitAnd(y, mask)
        cz == BitAnd(z, mask)
    IN  BitOr(BitOr(Shl32(cx, 20), Shl32(cy, 10)), cz)

\* LinearKey.from
LinearFrom(x, y, z) == LinearEncode(x, y, z)

\* LinearKey.x / .y / .z
LinearX(k) == BitAnd(Shr(k, 20), LinearKEY_MASK)
LinearY(k) == BitAnd(Shr(k, 10), LinearKEY_MASK)
LinearZ(k) == BitAnd(k, LinearKEY_MASK)

\* MortonKey.incX .. decZ: the scalar of the stepped key
MortonIncX(k) ==
    LET sum == BitOr(k, YZ3_MASK) + 1
    IN  BitOr(BitAnd(sum, X3_MASK), BitAnd(k, YZ3_MASK))

MortonDecX(k) ==
    LET diff == BitAnd(k, X3_MASK) - 1
    IN  BitOr(BitAnd(diff, X3_MASK), BitAnd(k, YZ3_MASK))

\* an incY on the bare key, the x and z lanes not filled
MortonIncYNoFill(k) ==
    LET sum == k + 2
    IN  BitOr(BitAnd(sum, Y3_MASK), BitAnd(k, XZ3_MASK))

MortonIncY(k) ==
    LET sum == BitOr(k, XZ3_MASK) + 2
    IN  BitOr(BitAnd(sum, Y3_MASK), BitAnd(k, XZ3_MASK))

MortonDecY(k) ==
    LET diff == BitAnd(k, Y3_MASK) - 2
    IN  BitOr(BitAnd(diff, Y3_MASK), BitAnd(k, XZ3_MASK))

MortonIncZ(k) ==
    LET sum == BitOr(k, XY3_MASK) + 1
    IN  BitOr(BitAnd(sum, Z3_MASK), BitAnd(k, XY3_MASK))

MortonDecZ(k) ==
    LET diff == BitAnd(k, Z3_MASK) - 1
    IN  BitOr(BitAnd(diff, Z3_MASK), BitAnd(k, XY3_MASK))

\* an addition on the bare lane, the other lanes not filled: a carry stops at
\* the first gap
MortonAddNoFill(a, b) ==
    BitOr(BitOr(BitAnd(BitAnd(a, X3_MASK) + BitAnd(b, X3_MASK), X3_MASK),
                BitAnd(BitAnd(a, Y3_MASK) + BitAnd(b, Y3_MASK), Y3_MASK)),
          BitAnd(BitAnd(a, Z3_MASK) + BitAnd(b, Z3_MASK), Z3_MASK))

\* MortonKey.add: the scalar of the sum of the keys with scalars a and b
MortonAdd(a, b) ==
    LET sumX == BitOr(a, YZ3_MASK) + BitAnd(b, X3_MASK)
        sumY == BitOr(a, XZ3_MASK) + BitAnd(b, Y3_MASK)
        sumZ == BitOr(a, XY3_MASK) + BitAnd(b, Z3_MASK)
    IN  BitOr(BitOr(BitAnd(sumX, X3_MASK), BitAnd(sumY, Y3_MASK)), BitAnd(sumZ, Z3_MASK))

\* MortonKey.sub
MortonSub(a, b) ==
    LET subX == BitAnd(a, X3_MASK) - BitAnd(b, X3_MASK)
        subY == BitAnd(a, Y3_MASK) - BitAnd(b, Y3_MASK)
        subZ == BitAnd(a, Z3_MASK) - BitAnd(b, Z3_MASK)
    IN  BitOr(BitOr(BitAnd(subX, X3_MASK), BitAnd(subY, Y3_MASK)), BitAnd(subZ, Z3_MASK))

\* LinearKey.add and LinearKey.sub
LinearAdd(a, b) ==
    LinearEncode(LinearX(a) + LinearX(b), LinearY(a) + LinearY(b), LinearZ(a) + LinearZ(b))
LinearSub(a, b) ==
    LinearEncode(LinearX(a) - LinearX(b), LinearY(a) - LinearY(b), LinearZ(a) - LinearZ(b))

\* a key object: its class and its _key; the accessors x, y, z of either class
KeyObject(kind, k) == [kind |-> kind, k |-> k]
KeyXYZ(o) ==
    IF o.kind = "MortonKey" THEN <<MortonX(o.k), MortonY(o.k), MortonZ(o.k)>>
    ELSE <<LinearX(o.k), LinearY(o.k), LinearZ(o.k)>>

\* MortonKey.cmp / LinearKey.cmp: a.cmp(b)
KeyCmp(a, b) ==
    IF b.kind = a.kind THEN a.k = b.k
    ELSE KeyXYZ(a) = KeyXYZ(b)

-----------------------------------------------------------------------------
(* VoxelIndex: the 12-bit key of a bitvoxel inside a chunk                 *)

VI_KEY_MASK == maskForBits(2)
VI_VX_MASK == maskForBits(6)
VI_VALUE_MASK == maskForBits(12)

\* VoxelIndex._Encode with each component clamped to 0..3 instead of masked
VIEncodeClamped(x, y, z, u, v, w) ==
    LET clamp(n) == IF n < 0 THEN 0 ELSE IF n > 3 THEN 3 ELSE n
    IN  clamp(x) * 1024 + clamp(y) * 256 + clamp(z) * 64
        + clamp(u) * 16 + clamp(v) * 4 + clamp(w)

\* VoxelIndex._Encode
VIEncode(x, y, z, u, v, w) ==
    LET mask == VI_KEY_MASK
        vx == BitAnd(x, mask)
        vy == BitAnd(y, mask)
        vz == BitAnd(z, mask)
        bx == BitAnd(u, mask)
        by == BitAnd(v, mask)
        bz == BitAnd(w, mask)
    IN  BitOr(BitOr(BitOr(BitOr(BitOr(Shl32(vx, 10), Shl32(vy, 8)), Shl32(vz, 6)),
                          Shl32(bx, 4)), Shl32(by, 2)), bz)

\* VoxelIndex.from: the scalar stored in _key
VIFrom(x, y, z, u, v, w) == VIEncode(x, y, z, u, v, w)

\* VoxelIndex.vx .. bz
VIvx(k) == BitAnd(Shr(k, 10), VI_KEY_MASK)
VIvy(k) == BitAnd(Shr(k, 8), VI_KEY_MASK)
VIvz(k) == BitAnd(Shr(k, 6), VI_KEY_MASK)
VIbx(k) == BitAnd(Shr(k, 4), VI_KEY_MASK)
VIby(k) == BitAnd(Shr(k, 2), VI_KEY_MASK)
VIbz(k) == BitAnd(k, VI_KEY_MASK)

\* VoxelIndex.vKey / .bKey
VIvKey(k) == BitAnd(Shr(k, 6), VI_VX_MASK)
VIbKey(k) == BitAnd(k, VI_VX_MASK)

\* VoxelIndex.key setter
VISetKey(value) == BitAnd(value, VI_VALUE_MASK)

-----------------------------------------------------------------------------
(* BitArray: a Uint32Array of words.  The array is kept as its length n and *)
(* the map w of its non-zero words; every other word of the array is 0.    *)

BITS_PER_ELEMENT == 32

\* the typed array after construction: `elements` zero words
NewElements(elements) == [n |-> IF elements > 0 THEN elements ELSE 1, w |-> <<>>]

\* _array.length
ArrayLength(elems) == elems.n

\* a typed-array load, for a word index inside the array
LoadWord(elems, i) == IF i \in DOMAIN elems.w THEN elems.w[i] ELSE ZeroWord

\* a typed-array store: an index outside the array is ignored
StoreWord(elems, i, word) ==
    IF i < 0 \/ i >= elems.n THEN elems
    ELSE [elems EXCEPT !.w =
             [j \in (IF word = ZeroWord THEN DOMAIN elems.w \ {i} ELSE DOMAIN elems.w \cup {i}) |->
                 IF j = i THEN word ELSE elems.w[j]]]

\* the two checks that precede every per-bit operation; FALSE is the throw
BitArrayInRange(elems, pos) ==
    /\ ~(pos < 0)
    /\ ~((pos \div BITS_PER_ELEMENT) >= ArrayLength(elems))

\* BitArray.bitAt (-1 stands for the throw)
BitArrayBitAt(elems, pos) ==
    IF ~BitArrayInRange(elems, pos) THEN -1
    ELSE bitAt(LoadWord(elems, pos \div BITS_PER_ELEMENT), pos % BITS_PER_ELEMENT)

\* a setBitAt that addresses the word by pos >> 6
BitArraySetBitAtWide(elems, pos) ==
    IF ~BitArrayInRange(elems, pos) THEN elems
    ELSE StoreWord(elems, pos \div 64,
                   setBitAt(LoadWord(elems, pos \div 64), pos % BITS_PER_ELEMENT))

\* BitArray.setBitAt (a throw leaves the array as it was)
BitArraySetBitAt(elems, pos) ==
    IF ~BitArrayInRange(elems, pos) THEN elems
    ELSE StoreWord(elems, pos \div BITS_PER_ELEMENT,
                   setBitAt(LoadWord(elems, pos \div BITS_PER_ELEMENT), pos % BITS_PER_ELEMENT))

\* BitArray.unsetBitAt
BitArrayUnsetBitAt(elems, pos) ==
    IF ~BitArrayInRange(elems, pos) THEN elems
    ELSE StoreWord(elems, pos \div BITS_PER_ELEMENT,
                   unsetBitAt(LoadWord(elems, pos \div BITS_PER_ELEMENT), pos % BITS_PER_ELEMENT))

\* BitArray.toggleBitAt
BitArrayToggleBitAt(elems, pos) ==
    IF ~BitArrayInRange(elems, pos) THEN elems
    ELSE StoreWord(elems, pos \div BITS_PER_ELEMENT,
                   toggleBitAt(LoadWord(elems, pos \div BITS_PER_ELEMENT), pos % BITS_PER_ELEMENT))

\* BitArray.popCount: the sum the loop accumulates; the zero words add nothing
RECURSIVE PopCountOver(_, _)
PopCountOver(elems, todo) ==
    IF todo = {} THEN 0
    ELSE LET i == CHOOSE j \in todo : TRUE
         IN  popCount(LoadWord(elems, i)) + PopCountOver(elems, todo \ {i})

BitArrayPopCount(elems) == PopCountOver(elems, DOMAIN elems.w)

-----------------------------------------------------------------------------
(* BVXLayer: 4096 bitvoxels in 128 words                                   *)

LAYER_DIMS == 16
LAYER_SIZE == LAYER_DIMS * LAYER_DIMS * LAYER_DIMS

\* new BVXLayer()
NewLayer == NewElements(LAYER_SIZE \div 32)

\* BVXLayer.length
LayerLength(L) == BitArrayPopCount(L)

\* a fill that takes the voxel's words to start at vKey
LayerFillUnscaled(L, vi) ==
    LET vxIndex == VIvKey(vi)
    IN  StoreWord(StoreWord(L, vxIndex, FullWord), vxIndex + 1, FullWord)

\* BVXLayer.fill
LayerFill(L, vi) ==
    LET vxIndex == VIvKey(vi) * 2
    IN  StoreWord(StoreWord(L, vxIndex, FullWord), vxIndex + 1, FullWord)

\* BVXLayer.empty
LayerEmpty(L, vi) ==
    LET vxIndex == VIvKey(vi) * 2
    IN  StoreWord(StoreWord(L, vxIndex, ZeroWord), vxIndex + 1, ZeroWord)

\* BVXLayer.set / unset / toggle / get
LayerSet(L, vi) == BitArraySetBitAt(L, vi)
LayerUnset(L, vi) == BitArrayUnsetBitAt(L, vi)
LayerToggle(L, vi) == BitArrayToggleBitAt(L, vi)
LayerGet(L, vi) == BitArrayBitAt(L, vi)

\* BVXLayer.count
LayerCount(L, vi) ==
    LET vxIndex == VIvKey(vi) * 2
    IN  popCount(LoadWord(L, vxIndex)) + popCount(LoadWord(L, vxIndex + 1))

\* the bit positions that are 1 in the words of a layer
WordPositions(L) == UNION {{i * 32 + b : b \in L.w[i]} : i \in DOMAIN L.w}

-----------------------------------------------------------------------------
(* HashGrid: a sparse array of buckets, each a list of (key scalar, value) *)

DEFAULT_SIZE == 1024
WORLD_BUCKETS == 1024

\* the value a lookup returns for "absent"
Null == -1

\* the remainder operator of the language: the sign follows the dividend
Rem(a, n) == IF a >= 0 THEN a % n ELSE 0 - ((0 - a) % n)

\* HashGrid constructor: _size
GridSize(buckets) == IF buckets > 0 THEN buckets ELSE DEFAULT_SIZE

\* HashGrid._GetKeyBucket: the bucket of a key scalar, <<>> standing for null
GridBucket(d, size, k) ==
    LET b == Rem(k, size)
    IN  IF b \in DOMAIN d THEN d[b] ELSE <<>>

\* a _Get that takes the first node of the key's bucket, whatever its key
GridFindFirst(d, size, k) ==
    IF GridBucket(d, size, k) = <<>> THEN 0 ELSE 1

\* HashGrid._Get: the position in the bucket of the first node with this key, 0 for null
GridFind(d, size, k) ==
    LET bucket == GridBucket(d, size, k)
        hits == {i \in 1 .. Len(bucket) : bucket[i].key = k}
    IN  IF hits = {} THEN 0 ELSE CHOOSE i \in hits : \A j \in hits : i <= j

\* HashGrid.get
GridGet(d, size, k) ==
    LET i == GridFind(d, size, k)
    IN  IF i # 0 THEN GridBucket(d, size, k)[i].value ELSE Null

\* HashGrid.set without the lookup: a node is appended whether or not the key is there
GridSetAppend(d, size, k, v) ==
    LET bucketKey == Rem(k, size)
    IN  IF bucketKey \in DOMAIN d
        THEN [d EXCEPT ![bucketKey] = Append(@, [key |-> k, value |-> v])]
        ELSE [b \in DOMAIN d \cup {bucketKey} |->
                 IF b = bucketKey THEN <<[key |-> k, value |-> v]>> ELSE d[b]]

\* HashGrid.set
GridSet(d, size, k, v) ==
    LET i == GridFind(d, size, k)
        bucketKey == Rem(k, size)
    IN  IF i = 0
        THEN IF bucketKey \in DOMAIN d
             THEN [d EXCEPT ![bucketKey] = Append(@, [key |-> k, value |-> v])]
             ELSE [b \in DOMAIN d \cup {bucketKey} |->
                      IF b = bucketKey THEN <<[key |-> k, value |-> v]>> ELSE d[b]]
        ELSE [d EXCEPT ![bucketKey] = [@ EXCEPT ![i].value = v]]

\* Array.splice(index, 1) on a bucket
Splice(bucket, i) == [j \in 1 .. (Len(bucket) - 1) |-> IF j < i THEN bucket[j] ELSE bucket[j + 1]]

\* HashGrid.remove splicing the head of the bucket instead of the node found
GridRemoveHead(d, size, k) ==
    LET i == GridFind(d, size, k)
    IN  IF i # 0 THEN [d EXCEPT ![Rem(k, size)] = Splice(@, 1)] ELSE d

\* HashGrid.remove: the dictionary afterwards
GridRemove(d, size, k) ==
    LET i == GridFind(d, size, k)
    IN  IF i # 0 THEN [d EXCEPT ![Rem(k, size)] = Splice(@, i)] ELSE d

\* HashGrid.remove: the value returned
GridRemoveResult(d, size, k) == GridFind(d, size, k) # 0

-----------------------------------------------------------------------------
(* VoxelWorld and VoxelChunk                                               *)

\* VoxelWorld.get on a dictionary
WorldGet(d, k) == GridGet(d, WORLD_BUCKETS, k)

\* VoxelWorld.getOpt
WorldGetOpt(d, k, optret) ==
    LET retItem == WorldGet(d, k)
    IN  IF retItem = Null THEN optret ELSE retItem

\* VoxelWorld.insert of a chunk whose key has scalar k
WorldInsert(d, k, chunk) == GridSet(d, WORLD_BUCKETS, k, chunk)

\* VoxelWorld.remove
WorldRemove(d, k) == GridRemove(d, WORLD_BUCKETS, k)

\* the chunk objects: TMP_CHUNK of the face solver, and the caller's chunks
TMP_CHUNK == 0
ChunkCoords == <<
    <<0, 0, 0>>, <<1023, 0, 0>>, <<0, 1023, 0>>, <<0, 0, 1023>> >>
ChunkIds == 1 .. Len(ChunkCoords)

\* VoxelChunk.key of a caller's chunk: MortonKey.from of its coordinates
ChunkKeys == [c \in ChunkIds |-> MortonFrom(ChunkCoords[c][1], ChunkCoords[c][2], ChunkCoords[c][3])]
ChunkKey(c) == ChunkKeys[c]

\* VoxelChunk.getBitVoxel / .length / .getBitVoxelCount on the layers L of all chunks
ChunkGetBitVoxel(L, c, vi) == LayerGet(L[c], vi)
ChunkLength(L, c) == LayerLength(L[c])
ChunkCount(L, c, vi) == LayerCount(L[c], vi)

-----------------------------------------------------------------------------
(* VoxelFaceGeometry: the face solver                                      *)

X_POS_INDEX == 0
X_NEG_INDEX == 1
Y_POS_INDEX == 2
Y_NEG_INDEX == 3
Z_POS_INDEX == 4
Z_NEG_INDEX == 5
FACE_KEY_MASK == maskForBits(6)

\* new VoxelChunk0(TMP_MK): the layer of the stand-in chunk
TmpChunkLayerOneSet == [n |-> NewLayer.n, w |-> (0 :> setBitAt(ZeroWord, 0))]
TmpChunkLayer == NewLayer

\* VoxelGeometry.indices[i]; the buffer is kept as the map of the entries written
\* since the last reset, every other entry being 0
IndicesAt(buf, i) == IF i \in DOMAIN buf THEN buf[i] ELSE 0

\* the buffer after construction: no entry written
ResetIndices == <<>>

\* a reset that leaves the buffer as it is
KeepBuffer(buf) == buf

\* VoxelGeometry.reset: fill(0) over the whole buffer
ResetBuffer(buf) == [i \in {j \in DOMAIN buf : FALSE} |-> 0]

\* VoxelGeometry.popCount
RECURSIVE SumPopCount(_, _)
SumPopCount(buf, todo) ==
    IF todo = {} THEN 0
    ELSE LET i == CHOOSE j \in todo : TRUE
         IN  popCountInt(buf[i]) + SumPopCount(buf, todo \ {i})

\* a popCount that counts the non-zero entries
GeometryPopCountEntries(buf) == Cardinality({i \in DOMAIN buf : buf[i] # 0})

GeometryPopCount(buf) == SumPopCount(buf, DOMAIN buf)

\* VoxelFaceGeometry._GetBitVoxelXP
GetBitVoxelXP(L, index, c, next) ==
    LET bt0 == VIbx(index) + 1
        bt == IF bt0 > 3 THEN 0 ELSE bt0
        vt0 == IF bt0 > 3 THEN VIvx(index) + 1 ELSE VIvx(index)
    IN  IF bt0 > 3 /\ vt0 > 3
        THEN ChunkGetBitVoxel(L, next, VIFrom(0, VIvy(index), VIvz(index), bt, VIby(index), VIbz(index)))
        ELSE ChunkGetBitVoxel(L, c, VIFrom(vt0, VIvy(index), VIvz(index), bt, VIby(index), VIbz(index)))

\* an XN that wraps inside the chunk instead of switching to the neighbour
GetBitVoxelXNSameChunk(L, index, c, next) ==
    LET bt0 == VIbx(index) - 1
        bt == IF bt0 < 0 THEN 3 ELSE bt0
        vt0 == IF bt0 < 0 THEN VIvx(index) - 1 ELSE VIvx(index)
    IN  ChunkGetBitVoxel(L, c, VIFrom(vt0, VIvy(index), VIvz(index), bt, VIby(index), VIbz(index)))

\* VoxelFaceGeometry._GetBitVoxelXN
GetBitVoxelXN(L, index, c, next) ==
    LET bt0 == VIbx(index) - 1
        bt == IF bt0 < 0 THEN 3 ELSE bt0
        vt0 == IF bt0 < 0 THEN VIvx(index) - 1 ELSE VIvx(index)
    IN  IF bt0 < 0 /\ vt0 < 0
        THEN ChunkGetBitVoxel(L, next, VIFrom(3, VIvy(index), VIvz(index), bt, VIby(index), VIbz(index)))
        ELSE ChunkGetBitVoxel(L, c, VIFrom(vt0, VIvy(index), VIvz(index), bt, VIby(index), VIbz(index)))

\* a YP that wraps the bitvoxel coordinate without carrying into the voxel coordinate
GetBitVoxelYPNoCarry(L, index, c, next) ==
    LET bt0 == VIby(index) + 1
        bt == IF bt0 > 3 THEN 0 ELSE bt0
    IN  ChunkGetBitVoxel(L, c, VIFrom(VIvx(index), VIvy(index), VIvz(index), VIbx(index), bt, VIbz(index)))

\* VoxelFaceGeometry._GetBitVoxelYP
GetBitVoxelYP(L, index, c, next) ==
    LET bt0 == VIby(index) + 1
        bt == IF bt0 > 3 THEN 0 ELSE bt0
        vt0 == IF bt0 > 3 THEN VIvy(index) + 1 ELSE VIvy(index)
    IN  IF bt0 > 3 /\ vt0 > 3
        THEN ChunkGetBitVoxel(L, next, VIFrom(VIvx(index), 0, VIvz(index), VIbx(index), bt, VIbz(index)))
        ELSE ChunkGetBitVoxel(L, c, VIFrom(VIvx(index), vt0, VIvz(index), VIbx(index), bt, VIbz(index)))

\* VoxelFaceGeometry._GetBitVoxelYN
GetBitVoxelYN(L, index, c, next) ==
    LET bt0 == VIby(index) - 1
        bt == IF bt0 < 0 THEN 3 ELSE bt0
        vt0 == IF bt0 < 0 THEN VIvy(index) - 1 ELSE VIvy(index)
    IN  IF bt0 < 0 /\ vt0 < 0
        THEN ChunkGetBitVoxel(L, next, VIFrom(VIvx(index), 3, VIvz(index), VIbx(index), bt, VIbz(index)))
        ELSE ChunkGetBitVoxel(L, c, VIFrom(VIvx(index), vt0, VIvz(index), VIbx(index), bt, VIbz(index)))

\* VoxelFaceGeometry._GetBitVoxelZP
GetBitVoxelZP(L, index, c, next) ==
    LET bt0 == VIbz(index) + 1
        bt == IF bt0 > 3 THEN 0 ELSE bt0
        vt0 == IF bt0 > 3 THEN VIvz(index) + 1 ELSE VIvz(index)
    IN  IF bt0 > 3 /\ vt0 > 3
        THEN ChunkGetBitVoxel(L, next, VIFrom(VIvx(index), VIvy(index), 0, VIbx(index), VIby(index), bt))
        ELSE ChunkGetBitVoxel(L, c, VIFrom(VIvx(index), VIvy(index), vt0, VIbx(index), VIby(index), bt))

\* VoxelFaceGeometry._GetBitVoxelZN
GetBitVoxelZN(L, index, c, next) ==
    LET bt0 == VIbz(index) - 1
        bt == IF bt0 < 0 THEN 3 ELSE bt0
        vt0 == IF bt0 < 0 THEN VIvz(index) - 1 ELSE VIvz(index)
    IN  IF bt0 < 0 /\ vt0 < 0
        THEN ChunkGetBitVoxel(L, next, VIFrom(VIvx(index), VIvy(index), 3, VIbx(index), VIby(index), bt))
        ELSE ChunkGetBitVoxel(L, c, VIFrom(VIvx(index), VIvy(index), vt0, VIbx(index), VIby(index), bt))

\* (~bv) & 1 for a bit bv
InvBit(bv) == 1 - bv

\* the body of the loop of computeIndices for one set bitvoxel: the entry stored
FaceEntry(L, start, vic, center, xp, xn, yp, yn, zp, zn) ==
    LET g1 == setBit(start, X_POS_INDEX, InvBit(GetBitVoxelXP(L, vic, center, xp)))
        g2 == setBit(g1, X_NEG_INDEX, InvBit(GetBitVoxelXN(L, vic, center, xn)))
        g3 == setBit(g2, Y_POS_INDEX, InvBit(GetBitVoxelYP(L, vic, center, yp)))
        g4 == setBit(g3, Y_NEG_INDEX, InvBit(GetBitVoxelYN(L, vic, center, yn)))
        g5 == setBit(g4, Z_POS_INDEX, InvBit(GetBitVoxelZP(L, vic, center, zp)))
        g6 == setBit(g5, Z_NEG_INDEX, InvBit(GetBitVoxelZN(L, vic, center, zn)))
    IN  BitAnd(g6, FACE_KEY_MASK)

\* MortonKey.copy(optres): the scalar optres holds afterwards
MortonCopy(k, optres) == k

\* incX() .. decZ() on TMP_MK holding the key of one of the caller's chunks: the
\* scalar afterwards, computed once for each key
SolverSteps ==
    [k \in {ChunkKey(c) : c \in ChunkIds} |->
        [xp |-> MortonIncX(k), xn |-> MortonDecX(k), yp |-> MortonIncY(k),
         yn |-> MortonDecY(k), zp |-> MortonIncZ(k), zn |-> MortonDecZ(k)]] @@ <<>>

\* centerKey.copy(TMP_MK).incX() and so on, TMP_MK holding tmp before the copy
SolverKey(dir, center, tmp) == SolverSteps[MortonCopy(ChunkKey(center), tmp)][dir]

\* the keys computeIndices looks up in the directions dirs, in this order, each
\* copy written over what the lookup before it left in TMP_MK
RECURSIVE SolverKeys(_, _, _)
SolverKeys(dirs, center, tmp) ==
    IF dirs = <<>> THEN <<>>
    ELSE LET k == SolverKey(Head(dirs), center, tmp)
         IN  <<k>> \o SolverKeys(Tail(dirs), center, k)

\* the order of the lookups of computeIndices
SolverDirs == <<"xp", "xn", "yp", "yn", "zp", "zn">>

\* the six chunks computeIndices works with: world.getOpt of each key, TMP_CHUNK
\* standing in for the chunks not found
SolverChunks(d, center, tmp) ==
    LET keys == SolverKeys(SolverDirs, center, tmp)
    IN  [xp |-> WorldGetOpt(d, keys[1], TMP_CHUNK), xn |-> WorldGetOpt(d, keys[2], TMP_CHUNK),
         yp |-> WorldGetOpt(d, keys[3], TMP_CHUNK), yn |-> WorldGetOpt(d, keys[4], TMP_CHUNK),
         zp |-> WorldGetOpt(d, keys[5], TMP_CHUNK), zn |-> WorldGetOpt(d, keys[6], TMP_CHUNK)]

\* the loop of computeIndices over the buffer `cleared`, nb holding the six chunks.
\* The loop runs over all 4096 indices and skips those whose bitvoxel reads 0; the
\* indices whose bitvoxel can read 1 are the positions of the 1 bits of the
\* layer's words.
ComputeIndicesLoop(cleared, L, center, nb) ==
    LET visited == {index \in WordPositions(L[center]) :
                       /\ index < LAYER_SIZE
                       /\ ChunkGetBitVoxel(L, center, VISetKey(index)) # 0}
    IN  [index \in visited |->
            FaceEntry(L, IndicesAt(cleared, index), VISetKey(index),
                      center, nb.xp, nb.xn, nb.yp, nb.yn, nb.zp, nb.zn)] @@ cleared

\* VoxelFaceGeometry.computeIndices on the buffer buf, with TMP_MK holding tmp:
\* the buffer afterwards
ComputeIndicesBuffer(buf, tmp, d, L, center) ==
    IF ChunkLength(L, center) <= 0 THEN ResetBuffer(buf)
    ELSE ComputeIndicesLoop(ResetBuffer(buf), L, center, SolverChunks(d, center, tmp))

\* VoxelFaceGeometry.computeIndices: TMP_MK afterwards
ComputeIndicesTmpKey(L, center, old) ==
    IF ChunkLength(L, center) <= 0 THEN old
    ELSE SolverKeys(SolverDirs, center, old)[Len(SolverDirs)]

-----------------------------------------------------------------------------
(* Inputs of the key constructors                                          *)

\* how far past the ends of 0..1023 the constructor inputs reach
KeyOver == 2

\* inputs around both ends of the axis range, and whole multiples of 1024 away
EdgeInputs ==
    ((0 - KeyOver) .. KeyOver) \cup ((1023 - KeyOver) .. (1024 + KeyOver))
        \cup {-1025, -1024, 1027, 2047, 2048}

\* the other two axes during a sweep of one axis over 0..1023
SweepOthers == {<<0, 0>>, <<1023, 1023>>, <<341, 682>>}

KeyTriples ==
    (EdgeInputs \X EdgeInputs \X EdgeInputs)
        \cup {<<a, s[1], s[2]>> : a \in 0 .. 1023, s \in SweepOthers}
        \cup {<<s[1], a, s[2]>> : a \in 0 .. 1023, s \in SweepOthers}
        \cup {<<s[1], s[2], a>> : a \in 0 .. 1023, s \in SweepOthers}

\* new MortonKey() / new LinearKey(): _key = 0; the arguments of the call to come
KeyIdle == key = [in |-> <<0, 0, 0>>, op |-> "new", k |-> 0]

\* MortonKey.from(x, y, z) on the arguments drawn
MortonKeyFrom ==
    /\ key.op = "new"
    /\ key' = [key EXCEPT !.op = "MortonKey.from",
                          !.k = MortonFrom(key.in[1], key.in[2], key.in[3])]
    /\ UNCHANGED <<dict, layer, expect, indices, tmpKey, last, rc>>

\* LinearKey.from(x, y, z) on the arguments drawn
LinearKeyFrom ==
    /\ key.op = "new"
    /\ key' = [key EXCEPT !.op = "LinearKey.from",
                          !.k = LinearFrom(key.in[1], key.in[2], key.in[3])]
    /\ UNCHANGED <<dict, layer, expect, indices, tmpKey, last, rc>>

-----------------------------------------------------------------------------
(* WorldIndex and VoxelRaycaster.  World coordinates are kept in units of  *)
(* 1 / RayScale of a cell; the ray parameters tx, ty, tz and their steps   *)
(* are kept as the doubles the raycaster computes.                         *)

RayScale == 2

\* VoxelChunk.DIMS
CHUNK_DIMS == 4

\* WorldIndex.from with the chunk coordinate taken over the width of a voxel
\* instead of the width of a chunk
WorldIndexFromVoxelWidth(worldX, worldY, worldZ) ==
    LET chunkSize == CHUNK_DIMS
        worldSize == chunkSize * chunkSize
    IN  [chunk |-> MortonFrom(worldX \div chunkSize, worldY \div chunkSize, worldZ \div chunkSize),
         voxel |-> VIFrom(Rem(worldX, worldSize) \div chunkSize,
                          Rem(worldY, worldSize) \div chunkSize,
                          Rem(worldZ, worldSize) \div chunkSize,
                          Rem(worldX, chunkSize), Rem(worldY, chunkSize), Rem(worldZ, chunkSize))]

\* a / n | 0: the quotient cut toward zero
TruncDiv(a, n) == IF a >= 0 THEN a \div n ELSE 0 - ((0 - a) \div n)

\* WorldIndex.from with the quotients cut toward zero instead of floored, as in
\* the earlier WorldIndex.from
WorldIndexFromTrunc(worldX, worldY, worldZ) ==
    LET chunkSize == CHUNK_DIMS
        worldSize == chunkSize * chunkSize
    IN  [chunk |-> MortonFrom(TruncDiv(worldX, worldSize), TruncDiv(worldY, worldSize),
                              TruncDiv(worldZ, worldSize)),
         voxel |-> VIFrom(TruncDiv(Rem(worldX, worldSize), chunkSize),
                          TruncDiv(Rem(worldY, worldSize), chunkSize),
                          TruncDiv(Rem(worldZ, worldSize), chunkSize),
                          Rem(worldX, chunkSize), Rem(worldY, chunkSize), Rem(worldZ, chunkSize))]

\* WorldIndex.from on integer world coordinates: chunkIndex and voxelIndex scalars
WorldIndexFrom(worldX, worldY, worldZ) ==
    LET chunkSize == CHUNK_DIMS
        worldSize == chunkSize * chunkSize
    IN  [chunk |-> MortonFrom(worldX \div worldSize, worldY \div worldSize, worldZ \div worldSize),
         voxel |-> VIFrom(Rem(worldX, worldSize) \div chunkSize,
                          Rem(worldY, worldSize) \div chunkSize,
                          Rem(worldZ, worldSize) \div chunkSize,
                          Rem(worldX, chunkSize), Rem(worldY, chunkSize), Rem(worldZ, chunkSize))]

\* the values raycast returns: null, or the WorldIndex of a cell
NoHit == [hit |-> FALSE, chunk |-> 0, voxel |-> 0]
Hit(wi) == [hit |-> TRUE, chunk |-> wi.chunk, voxel |-> wi.voxel]

\* A coordinate of a ray is the pair of f and far that stands for
\* f / RayScale + far * 2^32: f in units of 1 / RayScale, far the multiples of 2^32.

\* v | 0 for the integer v = n + far * 2^32 with -2^31 <= n < 2^31: the low 32
\* bits of v read as a signed value
ToInt32(n, far) == n

\* Math.floor(x / cellSize) | 0
RayCell(f, far) == ToInt32(f \div RayScale, far)

\* x1 < x2 and x1 > x2 for a start coordinate x1 and an end coordinate x2, far
LessThan(x1, x2, far) == far > 0 \/ (far = 0 /\ x1 < x2)
GreaterThan(x1, x2, far) == far < 0 \/ (far = 0 /\ x1 > x2)

\* di, dj, dk
RayDir(x1, x2, far) ==
    IF LessThan(x1, x2, far) THEN 1 ELSE IF GreaterThan(x1, x2, far) THEN -1 ELSE 0

\* Math.abs(x2 - x1), the denominator of tx and of deltatx, as lo + hi * 2^32 in
\* units of 1 / RayScale
RayExtent(x1, x2, far) ==
    IF far > 0 THEN [hi |-> far, lo |-> x2 - x1]
    ELSE IF far < 0 THEN [hi |-> 0 - far, lo |-> x1 - x2]
    ELSE [hi |-> 0, lo |-> IF x2 >= x1 THEN x2 - x1 ELSE x1 - x2]

\* A number of the raycaster (an IEEE 754 double that is not negative) is the
\* set of the exponents e of the powers 2^e that add up to it: {} is 0, {0} is 1,
\* {-1, 0} is 1.5.  A double holds 53 significant bits, so its exponents lie within
\* 52 of its largest one.  The doubles of a raycast are far from the subnormal
\* range, which is left out.

\* +Infinity: the power that no finite double reaches
DBL_INFINITY == {1024}

\* the largest and the smallest exponent of a number that is not 0
TopBit(A) == CHOOSE e \in A : \A f \in A : f <= e
LowBit(A) == CHOOSE e \in A : \A f \in A : e <= f

\* A * 2^n
Scaled(A, n) == {e + n : e \in A}

\* A < B and A <= B: the largest exponent only one of them has decides
DblLess(A, B) == A # B /\ TopBit((A \ B) \cup (B \ A)) \in B
DblLeq(A, B) == A = B \/ DblLess(A, B)

\* the integer n, 0 <= n < 2^31, as a number
NatBits(n) == {e \in 0 .. 30 : (n \div (2 ^ e)) % 2 = 1}

\* the carry into exponent e of the sum A + B: some exponent below e that both
\* have, and one of them has every exponent between
CarryInto(A, B, e) ==
    \E j \in A \cap B : j < e /\ \A k \in (j + 1) .. (e - 1) : k \in A \/ k \in B

\* the exact sum A + B
ExactSum(A, B) ==
    IF A = {} THEN B
    ELSE IF B = {} THEN A
    ELSE {e \in LowBit(A \cup B) .. (TopBit(A \cup B) + 1) :
             ((e \in A) # (e \in B)) # CarryInto(A, B, e)}

\* the borrow from exponent e of the difference A - B: some exponent below e that
\* only B has, and none between that only A has
BorrowFrom(A, B, e) ==
    \E j \in B \ A : j < e /\ \A k \in (j + 1) .. (e - 1) : k \notin A \/ k \in B

\* the exact difference A - B for A >= B
ExactDiff(A, B) ==
    IF B = {} THEN A
    ELSE {e \in LowBit(A \cup B) .. TopBit(A \cup B) :
             ((e \in A) # (e \in B)) # BorrowFrom(A, B, e)}

\* the double nearest to an exact value, ties to the even one (the rounding of
\* every arithmetic operation on numbers)
RoundDouble(S) ==
    IF S = {} THEN {}
    ELSE LET cut == TopBit(S) - 52
             kept == {e \in S : e >= cut}
             half == (cut - 1) \in S
             sticky == \E e \in S : e < cut - 1
             up == half /\ (sticky \/ cut \in S)
             r == IF up THEN ExactSum(kept, {cut}) ELSE kept
         IN  IF TopBit(r) >= TopBit(DBL_INFINITY) THEN DBL_INFINITY ELSE r

\* a + b on numbers
DblAdd(A, B) ==
    IF A = DBL_INFINITY \/ B = DBL_INFINITY THEN DBL_INFINITY
    ELSE RoundDouble(ExactSum(A, B))

\* one step of the long division by B: with r the remainder and q the quotient
\* bits found so far, the bit at exponent e
DivStep(s, B, e) ==
    LET D == Scaled(B, e)
    IN  IF DblLeq(D, s.r) THEN [r |-> ExactDiff(s.r, D), q |-> s.q \cup {e}] ELSE s

\* the long division by B continued from exponent e down to exponent lo, six
\* bits at a time
RECURSIVE QuotBits(_, _, _, _)
QuotBits(s, B, e, lo) ==
    IF s.r = {} \/ e < lo THEN s
    ELSE QuotBits(DivStep(DivStep(DivStep(DivStep(DivStep(DivStep(s,
                      B, e), B, e - 1), B, e - 2), B, e - 3), B, e - 4), B, e - 5),
                  B, e - 6, lo)

\* a / b on finite numbers, a > 0 when b = 0 (x / 0 is +Infinity): the quotient
\* to 54 bits, one more than a double holds, with a bit further down standing
\* for the remainder, rounded
DblDiv(A, B) ==
    IF B = {} THEN DBL_INFINITY
    ELSE IF A = {} THEN {}
    ELSE LET p0 == TopBit(A) - TopBit(B)
             p == IF DblLeq(Scaled(B, p0), A) THEN p0 ELSE p0 - 1
             s == QuotBits([r |-> A, q |-> {}], B, p, p - 53)
         IN  RoundDouble(s.q \cup (IF s.r # {} THEN {p - 60} ELSE {}))

\* n / RayScale for an integer n >= 0 of the units of the model, as a number
RayNumber(n) == Scaled(NatBits(n), 0 - LowBit(NatBits(RayScale)))

\* Math.abs(x2 - x1) as a number: the difference of two coordinates is exact
RayAbs(x1, x2, far) ==
    LET e == RayExtent(x1, x2, far)
        hi == Scaled(NatBits(e.hi), 32)
    IN  IF e.lo >= 0 THEN ExactSum(hi, RayNumber(e.lo))
        ELSE ExactDiff(hi, RayNumber(0 - e.lo))

\* deltatx, deltaty, deltatz: cellSize / Math.abs(x2 - x1)
RayDelta(x1, x2, far) == DblDiv(RayNumber(RayScale), RayAbs(x1, x2, far))

\* the initial tx: the distance from x1 to the face of its cell the ray leaves
\* by, over Math.abs(x2 - x1)
RayInitT(x1, x2, far) ==
    LET minx == RayScale * (x1 \div RayScale)
        maxx == minx + RayScale
    IN  DblDiv(RayNumber(IF GreaterThan(x1, x2, far) THEN x1 - minx ELSE maxx - x1),
               RayAbs(x1, x2, far))

\* tx <= ty on numbers
LeqT(ta, tb) == DblLeq(ta, tb)

\* i === iend
RayAtEnd(c, cend) == c = cend

\* the loop iterations of one raycast the specifications follow: the loop of
\* raycast has no bound of its own
MaxIters == 40

\* raycast(ray) up to the loop: the locals before the first iteration
StartRaycast(seg, far) ==
    /\ rc.pc = "idle"
    /\ rc' = [pc |-> "loop", seg |-> seg, far |-> far,
              cell |-> [a \in 1 .. 3 |-> RayCell(seg[a], 0)],
              delta |-> [a \in 1 .. 3 |-> RayDelta(seg[a], seg[a + 3], far[a])],
              t |-> [a \in 1 .. 3 |-> RayInitT(seg[a], seg[a + 3], far[a])],
              iters |-> 0, res |-> NoHit]
    /\ last' = [op |-> "raycast", c |-> 0, arg |-> 0, res |-> 0]
    /\ UNCHANGED <<key, dict, layer, expect, indices, tmpKey>>

\* one iteration of the loop of raycast: test the current cell, then return or advance
RayStep ==
    /\ rc.pc = "loop"
    /\ LET i == rc.cell[1]
           j == rc.cell[2]
           k == rc.cell[3]
           tx == rc.t[1]
           ty == rc.t[2]
           tz == rc.t[3]
           worldCoord == WorldIndexFrom(i, j, k)
           chunk == WorldGet(dict, worldCoord.chunk)
           done == [rc EXCEPT !.pc = "done", !.iters = @ + 1]
       IN  IF chunk # Null /\ ChunkGetBitVoxel(layer, chunk, worldCoord.voxel) = 1
           THEN rc' = [done EXCEPT !.res = Hit(WorldIndexFrom(i, j, k))]
           ELSE IF LeqT(tx, ty) /\ LeqT(tx, tz)
           THEN IF RayAtEnd(i, RayCell(rc.seg[4], rc.far[1])) THEN rc' = done
                ELSE rc' = [rc EXCEPT !.t[1] = DblAdd(@, rc.delta[1]),
                                      !.cell[1] = @ + RayDir(rc.seg[1], rc.seg[4], rc.far[1]),
                                      !.iters = @ + 1]
           ELSE IF LeqT(ty, tx) /\ LeqT(ty, tz)
           THEN IF RayAtEnd(j, RayCell(rc.seg[5], rc.far[2])) THEN rc' = done
                ELSE rc' = [rc EXCEPT !.t[2] = DblAdd(@, rc.delta[2]),
                                      !.cell[2] = @ + RayDir(rc.seg[2], rc.seg[5], rc.far[2]),
                                      !.iters = @ + 1]
           ELSE IF RayAtEnd(k, RayCell(rc.seg[6], rc.far[3])) THEN rc' = done
                ELSE rc' = [rc EXCEPT !.t[3] = DblAdd(@, rc.delta[3]),
                                      !.cell[3] = @ + RayDir(rc.seg[3], rc.seg[6], rc.far[3]),
                                      !.iters = @ + 1]
    /\ UNCHANGED <<key, dict, layer, expect, indices, tmpKey, last>>

\* the other objects, as constructed and not yet used
DictIdle == dict = <<>>
LayerIdle ==
    layer = [c \in {TMP_CHUNK} \cup ChunkIds |->
                IF c = TMP_CHUNK THEN TmpChunkLayer ELSE NewLayer]
ExpectIdle == expect = [c \in ChunkIds |-> {}]
IndicesIdle == indices = ResetIndices
TmpKeyIdle == tmpKey = 0
LastIdle == last = [op |-> "new", c |-> 0, arg |-> 0, res |-> 0]
RcIdle ==
    rc = [pc |-> "idle", seg |-> <<0, 0, 0, 0, 0, 0>>, far |-> <<0, 0, 0>>,
          cell |-> <<0, 0, 0>>, delta |-> <<{}, {}, {}>>, t |-> <<{}, {}, {}>>,
          iters |-> 0, res |-> NoHit]

\* the bitvoxels of the voxel that holds bitvoxel vi: the 64 keys that differ
\* from vi in the six low bits only
VoxelBits(vi) == {(vi - (vi % 64)) + b : b \in 0 .. 63}

\* VoxelChunk.setBitVoxel
SetBitVoxel(c, vi) ==
    /\ layer' = [layer EXCEPT ![c] = LayerSet(@, vi)]
    /\ expect' = [expect EXCEPT ![c] = @ \cup {vi}]
    /\ last' = [op |-> "setBitVoxel", c |-> c, arg |-> 0, res |-> 0]
    /\ UNCHANGED <<key, dict, indices, tmpKey, rc>>

\* VoxelChunk.unsetBitVoxel
UnsetBitVoxel(c, vi) ==
    /\ layer' = [layer EXCEPT ![c] = LayerUnset(@, vi)]
    /\ expect' = [expect EXCEPT ![c] = @ \ {vi}]
    /\ last' = [op |-> "unsetBitVoxel", c |-> c, arg |-> 0, res |-> 0]
    /\ UNCHANGED <<key, dict, indices, tmpKey, rc>>

\* VoxelChunk.toggleBitVoxel
ToggleBitVoxel(c, vi) ==
    /\ layer' = [layer EXCEPT ![c] = LayerToggle(@, vi)]
    /\ expect' = [expect EXCEPT ![c] = IF vi \in @ THEN @ \ {vi} ELSE @ \cup {vi}]
    /\ last' = [op |-> "toggleBitVoxel", c |-> c, arg |-> 0, res |-> 0]
    /\ UNCHANGED <<key, dict, indices, tmpKey, rc>>

\* VoxelChunk.fillVoxel
FillVoxel(c, vi) ==
    /\ layer' = [layer EXCEPT ![c] = LayerFill(@, vi)]
    /\ expect' = [expect EXCEPT ![c] = @ \cup VoxelBits(vi)]
    /\ last' = [op |-> "fillVoxel", c |-> c, arg |-> vi, res |-> 0]
    /\ UNCHANGED <<key, dict, indices, tmpKey, rc>>

\* VoxelChunk.emptyVoxel
EmptyVoxel(c, vi) ==
    /\ layer' = [layer EXCEPT ![c] = LayerEmpty(@, vi)]
    /\ expect' = [expect EXCEPT ![c] = @ \ VoxelBits(vi)]
    /\ last' = [op |-> "emptyVoxel", c |-> c, arg |-> vi, res |-> 0]
    /\ UNCHANGED <<key, dict, indices, tmpKey, rc>>

\* a computeIndices that steps the key of the centre chunk itself and leaves it
\* at the last key looked up
ComputeIndicesOnCenterKey(c) ==
    /\ indices' = ComputeIndicesBuffer(indices, tmpKey, dict, layer, c)
    /\ tmpKey' = tmpKey
    /\ key' = [n \in DOMAIN key |->
                  IF n = c THEN ComputeIndicesTmpKey(layer, c, key[c]) ELSE key[n]]
    /\ last' = [op |-> "computeIndices", c |-> c,
                arg |-> IF DOMAIN indices = {} THEN 0 ELSE 1, res |-> tmpKey]
    /\ UNCHANGED <<dict, layer, expect, rc>>

\* VoxelFaceGeometry.computeIndices(center, world); the call is recorded with
\* whether the buffer held written entries (arg) and with what TMP_MK held (res)
\* when it was made
ComputeIndices(c) ==
    /\ indices' = ComputeIndicesBuffer(indices, tmpKey, dict, layer, c)
    /\ tmpKey' = ComputeIndicesTmpKey(layer, c, tmpKey)
    /\ last' = [op |-> "computeIndices", c |-> c,
                arg |-> IF DOMAIN indices = {} THEN 0 ELSE 1, res |-> tmpKey]
    /\ UNCHANGED <<key, dict, layer, expect, rc>>

\* VoxelGeometry.reset, called by the owner of the face geometry
GeometryReset ==
    /\ indices' = ResetBuffer(indices)
    /\ last' = [op |-> "reset", c |-> 0, arg |-> 0, res |-> 0]
    /\ UNCHANGED <<key, dict, layer, expect, tmpKey, rc>>

\* VoxelWorld.insert(chunk)
InsertChunk(c) ==
    /\ dict' = WorldInsert(dict, ChunkKey(c), c)
    /\ last' = [op |-> "insert", c |-> c, arg |-> 0, res |-> 0]
    /\ UNCHANGED <<key, layer, expect, indices, tmpKey, rc>>

\* VoxelWorld.remove(chunk.key)
RemoveChunk(c) ==
    /\ dict' = WorldRemove(dict, ChunkKey(c))
    /\ last' = [op |-> "remove", c |-> c, arg |-> 0,
                res |-> IF GridRemoveResult(dict, WORLD_BUCKETS, ChunkKey(c)) THEN 1 ELSE 0]
    /\ UNCHANGED <<key, layer, expect, indices, tmpKey, rc>>

-----------------------------------------------------------------------------
(* BVXGeometry: the index expander                                         *)

\* the six indices of one face in the 24-slot vertex block of a bitvoxel: two
\* triangles over the four vertices of face d, in either winding
FaceTriangles(d, flipped) ==
    IF flipped THEN <<4 * d, 4 * d + 2, 4 * d + 1, 4 * d, 4 * d + 3, 4 * d + 2>>
    ELSE <<4 * d, 4 * d + 1, 4 * d + 2, 4 * d, 4 * d + 2, 4 * d + 3>>

\* the entry of the index table (indices, indicesFlipped) for face mask m: the
\* triangles of the faces of m, from face d on
RECURSIVE LutFrom(_, _, _)
LutFrom(m, d, flipped) ==
    IF d > 5 THEN <<>>
    ELSE (IF (m \div (2 ^ d)) % 2 = 1 THEN FaceTriangles(d, flipped) ELSE <<>>)
             \o LutFrom(m, d + 1, flipped)

IndicesLut == [m \in 0 .. 63 |-> LutFrom(m, 0, FALSE)]
IndicesFlippedLut == [m \in 0 .. 63 |-> LutFrom(m, 0, TRUE)]

\* the values the inner loop of getIndices stores for one entry, in order
EntryValues(configuration, index) ==
    [cindex \in 1 .. Len(configuration) |-> configuration[cindex] + index * 24]

\* the values the outer loop of getIndices stores, in order: it visits the
\* entries that are not 0 by ascending index
RECURSIVE ValuesFrom(_, _, _)
ValuesFrom(buf, todo, renderableIndices) ==
    IF todo = {} THEN <<>>
    ELSE LET index == CHOOSE i \in todo : \A j \in todo : i <= j
         IN  EntryValues(renderableIndices[buf[index]], index)
                 \o ValuesFrom(buf, todo \ {index}, renderableIndices)

\* BVXGeometry.getIndices(geometry, flipped) without optres: a Uint32Array of n
\* slots; result[counter] = value stores the values in order from slot 0, a store
\* past the end is ignored; w maps the slots stored to, counter is the final count
GetIndicesResult(buf, flipped) ==
    LET numberOfFaces == GeometryPopCount(buf)
        numberOfIndices == numberOfFaces * 6
        values == ValuesFrom(buf, {i \in DOMAIN buf : buf[i] # 0},
                             IF flipped THEN IndicesFlippedLut ELSE IndicesLut)
        stored == IF Len(values) < numberOfIndices THEN Len(values) ELSE numberOfIndices
    IN  [n |-> numberOfIndices,
         w |-> [slot \in 0 .. (stored - 1) |-> values[slot + 1]],
         counter |-> Len(values)]

\* a call of getIndices on the face geometry; the caller holds the array returned
GetIndices(flipped) ==
    /\ last' = [op |-> "getIndices", c |-> IF flipped THEN 1 ELSE 0, arg |-> 0,
                res |-> GetIndicesResult(indices, flipped)]
    /\ UNCHANGED <<key, dict, layer, expect, indices, tmpKey, rc>>

\* the key constructors called on every triple of the input set
InitKeys ==
    /\ key \in [in : KeyTriples, op : {"new"}, k : {0}]
    /\ DictIdle /\ LayerIdle /\ ExpectIdle /\ IndicesIdle /\ TmpKeyIdle /\ LastIdle /\ RcIdle

NextKeys == MortonKeyFrom \/ LinearKeyFrom

SpecKeys == InitKeys /\ [][NextKeys]_vars

\* C9: MortonKey.from and LinearKey.from never fail, and the key they return has
\* the components x mod 1024, y mod 1024, z mod 1024 of the arguments, for
\* negative arguments and arguments >= 1024 too.
C9_ConstructorsWrap ==
    /\ key.op = "MortonKey.from" =>
          /\ key.k >= 0
          /\ MortonX(key.k) = key.in[1] % 1024
          /\ MortonY(key.k) = key.in[2] % 1024
          /\ MortonZ(key.k) = key.in[3] % 1024
    /\ key.op = "LinearKey.from" =>
          /\ key.k >= 0
          /\ LinearX(key.k) = key.in[1] % 1024
          /\ LinearY(key.k) = key.in[2] % 1024
          /\ LinearZ(key.k) = key.in[3] % 1024

\* MortonKey.from(-1, 1024, 1027) returned the key of (1023, 0, 3)
C9_Witness ==
    /\ key.op = "MortonKey.from"
    /\ key.in = <<-1, 1024, 1027>>
    /\ <<MortonX(key.k), MortonY(key.k), MortonZ(key.k)>> = <<1023, 0, 3>>

\* C10: for (x, y, z) in [0,1023]^3 the key of MortonKey.from(x, y, z) reads back
\* x, y and z through its accessors.
C10_MortonRoundTrip ==
    (/\ key.op = "MortonKey.from"
     /\ \A a \in 1 .. 3 : key.in[a] \in 0 .. 1023)
        => <<MortonX(key.k), MortonY(key.k), MortonZ(key.k)>> = key.in

\* MortonKey.from(341, 1023, 682) read back
C10_Witness ==
    /\ key.op = "MortonKey.from"
    /\ key.in = <<341, 1023, 682>>
    /\ MortonY(key.k) = 1023
    /\ MortonX(key.k) = 341
    /\ MortonZ(key.k) = 682

-----------------------------------------------------------------------------
(* Key objects under inc / dec, add / sub and cmp                          *)

\* the components of the keys made by from: both ends of an axis and a value
\* whose increment carries
OpAxis == {0, 1, 511, 1023}

\* the arguments of new MortonKey(key) / new LinearKey(key): bit 30, which lies
\* above the thirty bits of the three axes
RawKeys == {2 ^ 30}

\* new MortonKey(key) / new LinearKey(key): _key = key | 0
KeyNew(kind, raw) == KeyObject(kind, raw)

\* the key objects a caller can hold
KeyObjects ==
    {KeyObject("MortonKey", MortonFrom(x, y, z)) : <<x, y, z>> \in OpAxis \X OpAxis \X OpAxis}
        \cup {KeyObject("LinearKey", LinearFrom(x, y, z)) : <<x, y, z>> \in OpAxis \X OpAxis \X OpAxis}
        \cup {KeyNew(kind, raw) : <<kind, raw>> \in {"MortonKey", "LinearKey"} \X RawKeys}

\* the inc / dec calls made in a row on one key object
MaxKeyOps == 2

\* MortonKey.incX .. decZ and LinearKey.incX .. decZ on a key object, by direction
\* (1 or -1) and axis (1, 2, 3)
KeyStepped(o, dir, axis) ==
    IF o.kind = "MortonKey"
    THEN KeyObject("MortonKey",
            IF dir = 1
            THEN (IF axis = 1 THEN MortonIncX(o.k) ELSE IF axis = 2 THEN MortonIncY(o.k) ELSE MortonIncZ(o.k))
            ELSE (IF axis = 1 THEN MortonDecX(o.k) ELSE IF axis = 2 THEN MortonDecY(o.k) ELSE MortonDecZ(o.k)))
    ELSE KeyObject("LinearKey",
            LinearFrom(LinearX(o.k) + (IF axis = 1 THEN dir ELSE 0),
                       LinearY(o.k) + (IF axis = 2 THEN dir ELSE 0),
                       LinearZ(o.k) + (IF axis = 3 THEN dir ELSE 0)))

\* cur = a.incX(new ...) and the like, then cur.decX() ...: a step of the result
KeyStep(dir, axis) ==
    /\ \A n \in DOMAIN key.ops : key.ops[n][1] \in {"inc", "dec"}
    /\ Len(key.ops) < MaxKeyOps
    /\ key' = [key EXCEPT !.cur = KeyStepped(key.cur, dir, axis),
                          !.ops = Append(@, <<IF dir = 1 THEN "inc" ELSE "dec", axis>>)]
    /\ UNCHANGED <<dict, layer, expect, indices, tmpKey, last, rc>>

\* the components passed to the setters x, y, z: below the range, inside it and
\* above it
KeySetValues == {-1, 7, 500, 1024}

\* the key after a.x = value (axis 1), a.y = value, a.z = value: from(...) on the
\* value given and on the other two components as the accessors read them
KeyAxisSet(o, axis, value) ==
    LET c == [KeyXYZ(o) EXCEPT ![axis] = value]
    IN  KeyObject(o.kind, IF o.kind = "MortonKey" THEN MortonFrom(c[1], c[2], c[3])
                                                  ELSE LinearFrom(c[1], c[2], c[3]))

\* a.x = value, a.y = value, a.z = value: the key object changed in place
KeySetAxis(axis, value) ==
    /\ key.ops = <<>>
    /\ key' = [key EXCEPT !.ops = <<<<"set", axis, value>>>>,
                          !.cur = KeyAxisSet(key.a, axis, value)]
    /\ UNCHANGED <<dict, layer, expect, indices, tmpKey, last, rc>>

\* cur = add(a, b) for a key b of the class of a
KeyAdd(b) ==
    /\ key.ops = <<>>
    /\ b.kind = key.a.kind
    /\ key' = [key EXCEPT !.b = b, !.ops = <<<<"add", 0>>>>,
                          !.cur = KeyObject(b.kind, IF b.kind = "MortonKey"
                                                    THEN MortonAdd(key.a.k, b.k)
                                                    ELSE LinearAdd(key.a.k, b.k))]
    /\ UNCHANGED <<dict, layer, expect, indices, tmpKey, last, rc>>

\* cur = sub(a, b) for a key b of the class of a
KeySub(b) ==
    /\ key.ops = <<>>
    /\ b.kind = key.a.kind
    /\ key' = [key EXCEPT !.b = b, !.ops = <<<<"sub", 0>>>>,
                          !.cur = KeyObject(b.kind, IF b.kind = "MortonKey"
                                                    THEN MortonSub(key.a.k, b.k)
                                                    ELSE LinearSub(key.a.k, b.k))]
    /\ UNCHANGED <<dict, layer, expect, indices, tmpKey, last, rc>>

\* res = a.cmp(b) for a key b of either class
KeyCmpCall(b) ==
    /\ key.ops = <<>>
    /\ key' = [key EXCEPT !.b = b, !.ops = <<<<"cmp", 0>>>>, !.res = KeyCmp(key.a, b)]
    /\ UNCHANGED <<dict, layer, expect, indices, tmpKey, last, rc>>

\* a key object a, and nothing called on it yet
InitKeyOps ==
    /\ \E a \in KeyObjects : key = [a |-> a, b |-> a, cur |-> a, ops |-> <<>>, res |-> FALSE]
    /\ DictIdle /\ LayerIdle /\ ExpectIdle /\ IndicesIdle /\ TmpKeyIdle /\ LastIdle /\ RcIdle

NextKeyOps ==
    \/ \E dir \in {1, -1}, axis \in 1 .. 3 : KeyStep(dir, axis)
    \/ \E axis \in 1 .. 3, value \in KeySetValues : KeySetAxis(axis, value)
    \/ \E b \in KeyObjects : KeyAdd(b)
    \/ \E b \in KeyObjects : KeySub(b)
    \/ \E b \in KeyObjects : KeyCmpCall(b)

SpecKeyOps == InitKeyOps /\ [][NextKeyOps]_vars

\* C11 as stated: for every Morton key k and every axis A, decA(incA(k)) == k and
\* incA(decA(k)) == k: the key that results equals k as MortonKey.cmp compares
\* two Morton keys.
C11_IncDecInverse ==
    (/\ key.a.kind = "MortonKey"
     /\ Len(key.ops) = 2
     /\ key.ops[1][2] = key.ops[2][2]
     /\ key.ops[1][1] # key.ops[2][1])
        => KeyCmp(key.cur, key.a)

\* C12: add(a, b) and sub(a, b) of two keys of one class have the components
\* (a.x + b.x) mod 1024, ... and (a.x - b.x) mod 1024, ...: a carry or borrow on
\* one axis changes no other axis.
C12_AddSubComponentwise ==
    /\ key.ops = <<<<"add", 0>>>> =>
          KeyXYZ(key.cur) = [n \in 1 .. 3 |-> (KeyXYZ(key.a)[n] + KeyXYZ(key.b)[n]) % 1024]
    /\ key.ops = <<<<"sub", 0>>>> =>
          KeyXYZ(key.cur) = [n \in 1 .. 3 |-> (KeyXYZ(key.a)[n] - KeyXYZ(key.b)[n]) % 1024]

\* MortonKey.add of (1023, 511, 0) and (1, 1, 1023) gave (0, 512, 1023): x wrapped
\* and y carried over nine bits, z being left alone
C12_Witness ==
    /\ key.ops = <<<<"add", 0>>>>
    /\ key.a = KeyObject("MortonKey", MortonFrom(1023, 511, 0))
    /\ key.b = KeyObject("MortonKey", MortonFrom(1, 1, 1023))
    /\ KeyXYZ(key.cur) = <<0, 512, 1023>>

\* C13 as stated: for any two keys, of the same or of different classes and however
\* they were constructed, cmp returns true if and only if their (x, y, z) triples
\* are equal.
C13_CmpIffTriplesEqual ==
    key.ops = <<<<"cmp", 0>>>> => (key.res <=> KeyXYZ(key.a) = KeyXYZ(key.b))

-----------------------------------------------------------------------------
(* VoxelIndex.from and the component setters on drawn integers             *)

\* the integers passed as components: below the range, inside it and above it
VIInputs == {-5, -1, 2, 4}

\* the six components of a VoxelIndex, read through its accessors
VIComponents(k) == <<VIvx(k), VIvy(k), VIvz(k), VIbx(k), VIby(k), VIbz(k)>>

\* VoxelIndex.from(vx, vy, vz, bx, by, bz) on the arguments drawn
VoxelIndexFrom ==
    /\ key.op = "new"
    /\ key' = [key EXCEPT !.op = "VoxelIndex.from",
                          !.k = VIFrom(key.in[1], key.in[2], key.in[3],
                                       key.in[4], key.in[5], key.in[6])]
    /\ UNCHANGED <<dict, layer, expect, indices, tmpKey, last, rc>>

\* the setters vx .. bz: from(...) on the value given and on the other five
\* components as the accessors read them, written into the same object
VoxelIndexSet(n, value) ==
    /\ key.op = "VoxelIndex.from"
    /\ LET c == [VIComponents(key.k) EXCEPT ![n] = value]
       IN  key' = [key EXCEPT !.op = "VoxelIndex.set",
                              !.in = [@ EXCEPT ![n] = value],
                              !.k = VIFrom(c[1], c[2], c[3], c[4], c[5], c[6])]
    /\ UNCHANGED <<dict, layer, expect, indices, tmpKey, last, rc>>

InitVoxelIndex ==
    /\ \E in \in [1 .. 6 -> VIInputs] : key = [in |-> in, op |-> "new", k |-> 0]
    /\ DictIdle /\ LayerIdle /\ ExpectIdle /\ IndicesIdle /\ TmpKeyIdle /\ LastIdle /\ RcIdle

NextVoxelIndex ==
    \/ VoxelIndexFrom
    \/ \E n \in 1 .. 6, value \in VIInputs : VoxelIndexSet(n, value)

SpecVoxelIndex == InitVoxelIndex /\ [][NextVoxelIndex]_vars

\* C14: VoxelIndex.from accepts any integers and yields
\* key = (vx mod 4)<<10 | (vy mod 4)<<8 | (vz mod 4)<<6 | (bx mod 4)<<4 |
\* (by mod 4)<<2 | (bz mod 4), with vKey = key >> 6 and bKey = key & 63; each
\* component accessor returns its input wrapped modulo 4.
C14_FromWraps ==
    key.op \in {"VoxelIndex.from", "VoxelIndex.set"} =>
        LET in == key.in
            k == key.k
        IN  /\ k = (in[1] % 4) * 1024 + (in[2] % 4) * 256 + (in[3] % 4) * 64
                    + (in[4] % 4) * 16 + (in[5] % 4) * 4 + (in[6] % 4)
            /\ VIvKey(k) = k \div 64
            /\ VIbKey(k) = k % 64
            /\ VIComponents(k) = [n \in 1 .. 6 |-> in[n] % 4]

\* from(-1, 4, 2, -5, 2, -1): components below, inside and above the range
C14_Witness ==
    /\ key.op = "VoxelIndex.from"
    /\ key.in = <<-1, 4, 2, -5, 2, -1>>
    /\ VIComponents(key.k) = <<3, 0, 2, 3, 2, 3>>

-----------------------------------------------------------------------------
(* A HashGrid under set and remove.  `key` holds the constructor's argument *)
(* and _size, `dict` is _dict, and `last` is the list of the calls made,   *)
(* each with the value it returned and the result of get for every key     *)
(* just before it.                                                         *)

GridBuckets == 2
MaxGridOps == 4

\* the key scalars used: three that share a bucket of a grid of GridBuckets buckets,
\* two of which also share one of the default grid, and a negative scalar
GridKeys == {0, 2, 1024, -1}
GridValues == {1, 2}

\* get(k) for every key
GridView(d, size) == [k \in GridKeys |-> GridGet(d, size, k)]

\* new HashGrid(buckets)
GridNew(buckets) ==
    /\ key = [buckets |-> buckets, size |-> GridSize(buckets)]
    /\ dict = <<>>
    /\ last = <<>>

\* grid.set(k, v)
GridSetCall(k, v) ==
    /\ Len(last) < MaxGridOps
    /\ dict' = GridSet(dict, key.size, k, v)
    /\ last' = Append(last, [op |-> "set", c |-> k, arg |-> v, res |-> FALSE,
                             before |-> GridView(dict, key.size)])
    /\ UNCHANGED <<key, layer, expect, indices, tmpKey, rc>>

\* grid.remove(k)
GridRemoveCall(k) ==
    /\ Len(last) < MaxGridOps
    /\ dict' = GridRemove(dict, key.size, k)
    /\ last' = Append(last, [op |-> "remove", c |-> k, arg |-> Null,
                             res |-> GridRemoveResult(dict, key.size, k),
                             before |-> GridView(dict, key.size)])
    /\ UNCHANGED <<key, layer, expect, indices, tmpKey, rc>>

InitGrid ==
    /\ \E buckets \in {0, GridBuckets} : GridNew(buckets)
    /\ LayerIdle /\ ExpectIdle /\ IndicesIdle /\ TmpKeyIdle /\ RcIdle

NextGrid ==
    \/ \E k \in GridKeys, v \in GridValues : GridSetCall(k, v)
    \/ \E k \in GridKeys : GridRemoveCall(k)

SpecGrid == InitGrid /\ [][NextGrid]_vars

\* the number of nodes of the grid that carry the scalar k
RECURSIVE NodesIn(_, _)
NodesIn(bucket, k) ==
    IF bucket = <<>> THEN 0
    ELSE (IF Head(bucket).key = k THEN 1 ELSE 0) + NodesIn(Tail(bucket), k)
RECURSIVE NodesOf(_, _, _)
NodesOf(d, bs, k) ==
    IF bs = {} THEN 0
    ELSE LET b == CHOOSE x \in bs : TRUE
         IN  NodesIn(d[b], k) + NodesOf(d, bs \ {b}, k)

\* what the calls made so far leave under k: the value of the latest set for k
\* if no remove of k came after it, Null otherwise
RECURSIVE LatestSet(_, _)
LatestSet(calls, k) ==
    IF calls = <<>> THEN Null
    ELSE LET call == calls[Len(calls)]
         IN  IF call.c = k
             THEN (IF call.op = "set" THEN call.arg ELSE Null)
             ELSE LatestSet(SubSeq(calls, 1, Len(calls) - 1), k)

\* C15: after any sequence of set and remove operations a HashGrid holds at most
\* one entry per distinct key scalar (set on a scalar already present overwrites
\* the value instead of adding an entry), and get(k) returns the value of the
\* latest set for k's scalar.
C15_OneEntryPerScalar ==
    \A k \in GridKeys :
        /\ NodesOf(dict, DOMAIN dict, k) <= 1
        /\ GridGet(dict, key.size, k) = LatestSet(last, k)

\* set(0, 1), set(2, 1), set(0, 2) on a grid of GridBuckets buckets: the two scalars
\* share bucket 0, and the second set of 0 has overwritten the first node
C15_Witness ==
    /\ key.size = GridBuckets
    /\ Len(last) = 3
    /\ last[1].op = "set" /\ last[1].c = 0 /\ last[1].arg = 1
    /\ last[2].op = "set" /\ last[2].c = 2
    /\ last[3].op = "set" /\ last[3].c = 0 /\ last[3].arg = 2
    /\ 0 \in DOMAIN dict
    /\ Len(dict[0]) = 2
    /\ GridGet(dict, key.size, 0) = 2

\* C16: for a key k absent from the grid, set(k, v) followed by remove(k) returns
\* true and leaves get, for every key, equal to what it was before the set, with
\* get(k) absent again.
C16_RemoveRestores ==
    LET n == Len(last)
    IN  (n >= 2 /\ last[n - 1].op = "set" /\ last[n - 1].before[last[n - 1].c] = Null
               /\ last[n].op = "remove" /\ last[n].c = last[n - 1].c) =>
            /\ last[n].res = TRUE
            /\ GridView(dict, key.size) = last[n - 1].before
            /\ GridGet(dict, key.size, last[n].c) = Null

\* set(2, 1), set(1024, 2), set(0, 1), remove(0) on a grid of GridBuckets buckets: 0 is
\* set into a bucket that holds two other nodes and removed again
C16_Witness ==
    /\ key.size = GridBuckets
    /\ Len(last) = 4
    /\ last[1].op = "set" /\ last[1].c = 2
    /\ last[2].op = "set" /\ last[2].c = 1024
    /\ last[3].op = "set" /\ last[3].c = 0
    /\ last[4].op = "remove" /\ last[4].c = 0 /\ last[4].res = TRUE
    /\ GridView(dict, key.size) = last[3].before
    /\ Len(dict[0]) = 2

-----------------------------------------------------------------------------
(* A VoxelWorld under insert and remove.  `dict` is the world's grid, whose *)
(* values are the chunks' numbers, and `last` is the list of the calls made *)

MaxWorldOps == 4

\* the keys the caller's chunks are constructed with: two chunks at (0, 0, 0), one
\* at (0, 8, 0), whose scalar falls into the same bucket, and one on a key made by
\* the constructor from a scalar with bit 30 set
WorldChunkKey == <<MortonFrom(0, 0, 0), MortonFrom(0, 0, 0), MortonFrom(0, 8, 0),
                   KeyNew("MortonKey", 2 ^ 30).k>>
WorldChunks == DOMAIN WorldChunkKey

\* the keys passed to get and remove: those of the chunks, and one never inserted
WorldKeys == {WorldChunkKey[c] : c \in WorldChunks} \cup {MortonFrom(1, 0, 0)}

\* world.insert(chunk)
WorldInsertCall(c) ==
    /\ Len(last) < MaxWorldOps
    /\ dict' = WorldInsert(dict, WorldChunkKey[c], c)
    /\ last' = Append(last, [op |-> "insert", k |-> WorldChunkKey[c], c |-> c, res |-> FALSE])
    /\ UNCHANGED <<key, layer, expect, indices, tmpKey, rc>>

\* world.remove(key)
WorldRemoveCall(k) ==
    /\ Len(last) < MaxWorldOps
    /\ dict' = WorldRemove(dict, k)
    /\ last' = Append(last, [op |-> "remove", k |-> k, c |-> Null,
                             res |-> GridRemoveResult(dict, WORLD_BUCKETS, k)])
    /\ UNCHANGED <<key, layer, expect, indices, tmpKey, rc>>

\* new VoxelWorld()
InitWorld ==
    /\ dict = <<>>
    /\ last = <<>>
    /\ KeyIdle /\ LayerIdle /\ ExpectIdle /\ IndicesIdle /\ TmpKeyIdle /\ RcIdle

NextWorld ==
    \/ \E c \in WorldChunks : WorldInsertCall(c)
    \/ \E k \in WorldKeys : WorldRemoveCall(k)

SpecWorld == InitWorld /\ [][NextWorld]_vars

\* two Morton keys are equal: their (x, y, z) triples are equal
KeysEqual(a, b) == KeyXYZ(KeyObject("MortonKey", a)) = KeyXYZ(KeyObject("MortonKey", b))

\* the chunk most recently inserted under a key equal to k and not removed since,
\* Null if there is none
RECURSIVE LatestInserted(_, _)
LatestInserted(calls, k) ==
    IF calls = <<>> THEN Null
    ELSE LET call == calls[Len(calls)]
         IN  IF KeysEqual(call.k, k)
             THEN call.c
             ELSE LatestInserted(SubSeq(calls, 1, Len(calls) - 1), k)

\* C17 as stated: after any sequence of insert and remove operations, get(k)
\* returns the chunk most recently inserted under a key equal to k and not removed
\* since, or absent if there is none; an insert under an occupied key replaces the
\* chunk that was there.
C17_GetLatestInserted ==
    \A k \in WorldKeys : WorldGet(dict, k) = LatestInserted(last, k)

-----------------------------------------------------------------------------
(* WorldIndex.from on drawn world coordinates                              *)

\* the world coordinates passed: both ends of chunk 0, the first cells of chunk 1,
\* a cell inside chunk 2, the last cell of chunk 1023 and the cell after it, and
\* the largest 32-bit coordinate
WorldCoords == {0, 5, 15, 16, 22, 43, 16383, 16384, 2147483647}

\* WorldIndex.from(worldX, worldY, worldZ) on the arguments drawn
WorldIndexFromCall ==
    /\ key.op = "new"
    /\ key' = [key EXCEPT !.op = "WorldIndex.from",
                          !.k = WorldIndexFrom(key.in[1], key.in[2], key.in[3])]
    /\ UNCHANGED <<dict, layer, expect, indices, tmpKey, last, rc>>

\* new WorldIndex(): both keys 0, and the arguments of the call to come
InitWorldIndex ==
    /\ \E in \in [1 .. 3 -> WorldCoords] :
           key = [in |-> in, op |-> "new", k |-> [chunk |-> 0, voxel |-> 0]]
    /\ DictIdle /\ LayerIdle /\ ExpectIdle /\ IndicesIdle /\ TmpKeyIdle /\ LastIdle /\ RcIdle

NextWorldIndex == WorldIndexFromCall

SpecWorldIndex == InitWorldIndex /\ [][NextWorldIndex]_vars

\* C18: for every integer world coordinate w >= 0 on each axis, WorldIndex.from
\* yields chunk coordinate floor(w / 16) wrapped modulo 1024, voxel coordinate
\* floor((w mod 16) / 4) and bitvoxel coordinate w mod 4; so w in 0..15 maps to
\* chunk 0, and w + 16 maps to the next chunk with the same voxel index.
C18_WorldIndexMapping ==
    (key.op = "WorldIndex.from" /\ \A n \in 1 .. 3 : key.in[n] >= 0) =>
        LET w == key.in
            chunk == <<MortonX(key.k.chunk), MortonY(key.k.chunk), MortonZ(key.k.chunk)>>
        IN  /\ chunk = [n \in 1 .. 3 |-> (w[n] \div 16) % 1024]
            /\ VIComponents(key.k.voxel)
                   = <<(w[1] % 16) \div 4, (w[2] % 16) \div 4, (w[3] % 16) \div 4,
                       w[1] % 4, w[2] % 4, w[3] % 4>>
            /\ \A n \in 1 .. 3 : w[n] \in 0 .. 15 => chunk[n] = 0
            /\ (\A n \in 1 .. 3 : w[n] < 16384) =>
                   LET next == WorldIndexFrom(w[1] + 16, w[2] + 16, w[3] + 16)
                   IN  /\ next.voxel = key.k.voxel
                       /\ <<MortonX(next.chunk), MortonY(next.chunk), MortonZ(next.chunk)>>
                              = [n \in 1 .. 3 |-> (chunk[n] + 1) % 1024]

\* from(22, 16383, 43): chunk (1, 1023, 2), voxel (1, 3, 2), bitvoxel (2, 3, 3)
C18_Witness ==
    /\ key.op = "WorldIndex.from"
    /\ key.in = <<22, 16383, 43>>
    /\ key.k.chunk = MortonFrom(1, 1023, 2)
    /\ key.k.voxel = VIFrom(1, 3, 2, 2, 3, 3)

-----------------------------------------------------------------------------
(* One chunk under set / unset / toggle / fill / empty                     *)

\* the bitvoxels the caller addresses one at a time: both ends of the first
\* two words, the first bit of the next voxel, and the last bit of the layer
LayerPositions == {0, 31, 32, 63, 64, 4095}

\* the bitvoxels whose voxel the caller fills or empties (voxels 0, 1 and 63)
LayerVoxels == {VIFrom(0, 0, 0, 0, 0, 0), VIFrom(0, 0, 1, 1, 1, 1), VIFrom(3, 3, 3, 3, 3, 3)}

InitLayer ==
    /\ KeyIdle /\ DictIdle /\ LayerIdle /\ ExpectIdle
    /\ IndicesIdle /\ TmpKeyIdle /\ LastIdle /\ RcIdle

NextLayer ==
    \/ \E vi \in LayerPositions : SetBitVoxel(1, vi)
    \/ \E vi \in LayerPositions : UnsetBitVoxel(1, vi)
    \/ \E vi \in LayerPositions : ToggleBitVoxel(1, vi)
    \/ \E vi \in LayerVoxels : FillVoxel(1, vi)
    \/ \E vi \in LayerVoxels : EmptyVoxel(1, vi)

SpecLayer == InitLayer /\ [][NextLayer]_vars

\* the bitvoxels that read 1 in a layer
OnBits(L) == {i \in WordPositions(L) : LayerGet(L, i) = 1}

\* C7: after any sequence of operations on a chunk's layer, get(i) is 1 exactly
\* for the bitvoxels i in [0,4096) left on by the sequence, and length is their number.
C7_GetAndLength ==
    /\ \A i \in 0 .. (LAYER_SIZE - 1) :
          (ChunkGetBitVoxel(layer, 1, i) = 1) <=> (i \in expect[1])
    /\ ChunkLength(layer, 1) = Cardinality(expect[1])

\* set(i) for the i of a set S on the empty layer, S holding both ends of a word
C7_Witness ==
    /\ expect[1] = {31, 32, 4095}
    /\ last.op = "setBitVoxel"
    /\ ChunkLength(layer, 1) = 3
    /\ ChunkGetBitVoxel(layer, 1, 4095) = 1

\* C8: fill(v) leaves the 64 bitvoxels of voxel v at 1 and count(v) = 64, empty(v)
\* leaves them at 0 and count(v) = 0, and either leaves every bitvoxel of the
\* other voxels as it was, so that length changes by 64 - count(v), resp. -count(v).
C8_FillEmptyFrame ==
    [][(last'.op \in {"fillVoxel", "emptyVoxel"}) =>
          LET v == last'.arg
              bit == IF last'.op = "fillVoxel" THEN 1 ELSE 0
          IN  /\ \A i \in VoxelBits(v) : ChunkGetBitVoxel(layer', 1, i) = bit
              /\ ChunkCount(layer', 1, v) = 64 * bit
              /\ OnBits(layer'[1]) \ VoxelBits(v) = OnBits(layer[1]) \ VoxelBits(v)
              /\ ChunkLength(layer', 1) =
                    (ChunkLength(layer, 1) - ChunkCount(layer, 1, v)) + 64 * bit
      ]_vars

\* the second and the last voxel filled, after a bitvoxel of the first was set
C8_Witness ==
    /\ last.op = "fillVoxel"
    /\ last.arg = VIFrom(0, 0, 1, 1, 1, 1)
    /\ ChunkCount(layer, 1, 64) = 64
    /\ ChunkCount(layer, 1, 4095) = 64
    /\ ChunkLength(layer, 1) = 129

-----------------------------------------------------------------------------
(* The face solver on chunks under mutation                                *)

\* the cell of a bitvoxel in the 16 x 16 x 16 grid of its chunk, and back
Cell16(vi) ==
    << 4 * ((vi \div 1024) % 4) + ((vi \div 16) % 4),
       4 * ((vi \div 256) % 4) + ((vi \div 4) % 4),
       4 * ((vi \div 64) % 4) + (vi % 4) >>

KeyOfCell(n) ==
    1024 * (n[1] \div 4) + 256 * (n[2] \div 4) + 64 * (n[3] \div 4)
        + 16 * (n[1] % 4) + 4 * (n[2] % 4) + (n[3] % 4)

\* the unit steps of the six faces, in the order of the face bits 0..5
FaceDirs == << <<1, 0, 0>>, <<-1, 0, 0>>, <<0, 1, 0>>, <<0, -1, 0>>, <<0, 0, 1>>, <<0, 0, -1>> >>

Step16(vi, d) == [a \in 1 .. 3 |-> Cell16(vi)[a] + FaceDirs[d + 1][a]]
InChunk(n) == \A a \in 1 .. 3 : n[a] \in 0 .. 15
FaceBit(entry, d) == (entry \div (2 ^ d)) % 2

\* the chunks stored in the world under key scalar k
StoredUnder(k) ==
    {dict[b][j].value : <<b, j>> \in
        {bj \in UNION {{<<b, j>> : j \in DOMAIN dict[b]} : b \in DOMAIN dict} :
            dict[bj[1]][bj[2]].key = k}}

\* the key scalar of the chunk next to chunk c in direction d
NeighbourKeys ==
    [c \in ChunkIds |-> [d \in 0 .. 5 |->
        MortonFrom((ChunkCoords[c][1] + FaceDirs[d + 1][1]) % 1024,
                   (ChunkCoords[c][2] + FaceDirs[d + 1][2]) % 1024,
                   (ChunkCoords[c][3] + FaceDirs[d + 1][3]) % 1024)]]
NeighbourKey(c, d) == NeighbourKeys[c][d]

\* the bitvoxel next to bitvoxel vi of chunk c in direction d was left on
NeighbourOn(c, vi, d) ==
    LET n == Step16(vi, d)
    IN  IF InChunk(n) THEN KeyOfCell(n) \in expect[c]
        ELSE \E g \in StoredUnder(NeighbourKey(c, d)) :
                 KeyOfCell([a \in 1 .. 3 |-> n[a] % 16]) \in expect[g]

\* a world mutation finds the face buffer empty or just written
BufferFresh == DOMAIN indices = {} \/ last.op = "computeIndices"

\* the star around cell (4,4,4) of chunk 1: every step between two of its cells
\* crosses a voxel boundary on one side
InnerStar ==
    {KeyOfCell(n) : n \in {<<4, 4, 4>>, <<3, 4, 4>>, <<5, 4, 4>>, <<4, 3, 4>>,
                           <<4, 5, 4>>, <<4, 4, 3>>, <<4, 4, 5>>}}

InitFaceIn ==
    /\ KeyIdle /\ DictIdle /\ LayerIdle /\ ExpectIdle
    /\ IndicesIdle /\ TmpKeyIdle /\ LastIdle /\ RcIdle

NextFaceIn ==
    \/ \E vi \in InnerStar : BufferFresh /\ SetBitVoxel(1, vi)
    \/ \E vi \in InnerStar : BufferFresh /\ UnsetBitVoxel(1, vi)
    \/ ComputeIndices(1)
    \/ GeometryReset

SpecFaceIn == InitFaceIn /\ [][NextFaceIn]_vars

\* C1: after computeIndices(chunk, world) entry i of the buffer is 0 when bitvoxel
\* i of the chunk is unset; when it is set, bit d of the entry (+x, -x, +y, -y, +z,
\* -z for d = 0..5) is 1 exactly when the bitvoxel next to i in direction d, inside
\* the same chunk, is unset.
C1_InChunkFaces ==
    last.op = "computeIndices" =>
        /\ \A i \in 0 .. (LAYER_SIZE - 1) :
              i \notin expect[last.c] => IndicesAt(indices, i) = 0
        /\ \A i \in expect[last.c] : \A d \in 0 .. 5 :
              InChunk(Step16(i, d)) =>
                  ((FaceBit(IndicesAt(indices, i), d) = 1) <=> ~NeighbourOn(last.c, i, d))

\* the solver ran on the centre of the star with its -x, +y and -z neighbours set
C1_Witness ==
    /\ last.op = "computeIndices"
    /\ expect[1] = {KeyOfCell(<<4, 4, 4>>), KeyOfCell(<<3, 4, 4>>),
                    KeyOfCell(<<4, 5, 4>>), KeyOfCell(<<4, 4, 3>>)}
    /\ IndicesAt(indices, KeyOfCell(<<4, 4, 4>>)) = 1 + 8 + 16
    /\ IndicesAt(indices, KeyOfCell(<<3, 4, 4>>)) = 62

\* the star around corner cell (0,0,0) of chunk 1: three of its cells lie in
\* chunks 2, 3 and 4, across the -x, -y and -z faces of chunk 1
CornerStar ==
    {<<1, KeyOfCell(<<0, 0, 0>>)>>, <<1, KeyOfCell(<<1, 0, 0>>)>>,
     <<1, KeyOfCell(<<0, 1, 0>>)>>, <<1, KeyOfCell(<<0, 0, 1>>)>>,
     <<2, KeyOfCell(<<15, 0, 0>>)>>, <<3, KeyOfCell(<<0, 15, 0>>)>>,
     <<4, KeyOfCell(<<0, 0, 15>>)>>}

\* the world after insert of chunks 2, 3 and 4
DictFace ==
    WorldInsert(WorldInsert(WorldInsert(<<>>, ChunkKey(2), 2), ChunkKey(3), 3), ChunkKey(4), 4)

InitFace ==
    /\ dict = DictFace
    /\ KeyIdle /\ LayerIdle /\ ExpectIdle
    /\ IndicesIdle /\ TmpKeyIdle /\ LastIdle /\ RcIdle

NextFace ==
    \/ \E p \in CornerStar : BufferFresh /\ SetBitVoxel(p[1], p[2])
    \/ \E p \in CornerStar : BufferFresh /\ UnsetBitVoxel(p[1], p[2])
    \/ BufferFresh /\ InsertChunk(1)
    \/ BufferFresh /\ RemoveChunk(1)
    \/ \E c \in ChunkIds : ComputeIndices(c)
    \/ GeometryReset

SpecFace == InitFace /\ [][NextFace]_vars

\* the faces of a set bitvoxel that leave its chunk
OutwardFaces(vi) == {d \in 0 .. 5 : ~InChunk(Step16(vi, d))}

\* C2: for a set bitvoxel on a boundary face of the target chunk, the outward face
\* bit is clear exactly when the chunk stored under the target's key stepped by one
\* on that axis has a set bitvoxel at the mirrored position; and a set bitvoxel all
\* six of whose neighbours are set, in the chunk or across its faces, gets mask 0.
C2_BoundaryFaces ==
    last.op = "computeIndices" =>
        \A i \in expect[last.c] :
            /\ \A d \in OutwardFaces(i) :
                  (FaceBit(IndicesAt(indices, i), d) = 0) <=> NeighbourOn(last.c, i, d)
            /\ (\A d \in 0 .. 5 : NeighbourOn(last.c, i, d)) => IndicesAt(indices, i) = 0

\* the corner bitvoxel of chunk 1 is solved with all six neighbours set, three of
\* them in chunks 2, 3 and 4; its entry is written and is 0
C2_Witness ==
    /\ last.op = "computeIndices"
    /\ last.c = 1
    /\ \A p \in CornerStar : p[2] \in expect[p[1]]
    /\ KeyOfCell(<<0, 0, 0>>) \in DOMAIN indices
    /\ indices[KeyOfCell(<<0, 0, 0>>)] = 0
    /\ indices[KeyOfCell(<<1, 0, 0>>)] = 61

\* C3: when no chunk is stored under the key of the neighbour in some direction,
\* every set bitvoxel on that boundary face of the target gets that direction's
\* face bit set; the stand-in chunk for absent neighbours reads as all unset in
\* every reachable state.
C3_AbsentNeighbour ==
    /\ ChunkLength(layer, TMP_CHUNK) = 0
    /\ last.op = "computeIndices" =>
          \A i \in expect[last.c] : \A d \in OutwardFaces(i) :
              StoredUnder(NeighbourKey(last.c, d)) = {} =>
                  FaceBit(IndicesAt(indices, i), d) = 1

\* chunk 2 is solved after chunk 1 was inserted, solved and removed again: its
\* corner bitvoxel, alone in its chunk and facing three absent chunks, gets 0x3F
C3_Witness ==
    /\ last.op = "computeIndices"
    /\ last.c = 2
    /\ 0 \in DOMAIN dict
    /\ dict[0] = <<>>
    /\ KeyOfCell(<<0, 0, 0>>) \in expect[1]
    /\ expect[2] = {KeyOfCell(<<15, 0, 0>>)}
    /\ indices = (KeyOfCell(<<15, 0, 0>>) :> 63)

\* the chunks computeIndices(c, world) may read: c and the chunks stored under
\* the keys of its six neighbours
ChunksAround(c) == {c} \cup UNION {StoredUnder(NeighbourKey(c, d)) : d \in 0 .. 5}

\* the bitvoxel state of those chunks alone: every other chunk, and the stand-in
\* chunk, as constructed
LayersAround(c) ==
    [g \in DOMAIN layer |->
        IF g \in ChunksAround(c) THEN layer[g]
        ELSE IF g = TMP_CHUNK THEN TmpChunkLayer ELSE NewLayer]

\* the non-zero bytes of a mask buffer, with their positions
NonZero(buf) == {<<i, buf[i]>> : i \in {j \in DOMAIN buf : buf[j] # 0}}

\* C19: the mask buffer after computeIndices(chunk, world) depends only on the
\* bitvoxel state of the target chunk and of its six neighbours: it equals the
\* output of the solver on a new buffer and an unused TMP_MK over those chunks
\* alone, whatever the buffer and TMP_MK held at the call and whatever calls
\* were made before; and rerunning the solver on the unchanged world gives a
\* bit-identical buffer.
C19_SolverPure ==
    last.op = "computeIndices" =>
        /\ \A L \in {LayersAround(last.c)} :
               NonZero(indices) = NonZero(ComputeIndicesBuffer(ResetIndices, 0, dict, L, last.c))
        /\ NonZero(ComputeIndicesBuffer(indices, tmpKey, dict, layer, last.c)) = NonZero(indices)

\* the solver is called on chunk 1, which holds its corner bitvoxel only, while
\* the buffer holds the output for chunk 2 and TMP_MK the last key looked up for
\* chunk 2
C19_Witness ==
    /\ last.op = "computeIndices"
    /\ last.c = 1
    /\ last.arg = 1
    /\ last.res = MortonDecZ(ChunkKey(2))
    /\ expect[1] = {KeyOfCell(<<0, 0, 0>>)}
    /\ expect[2] = {KeyOfCell(<<15, 0, 0>>)}
    /\ NonZero(indices) = {<<KeyOfCell(<<0, 0, 0>>), 61>>}

-----------------------------------------------------------------------------
(* The index expander on solved chunks                                     *)

\* the star around VoxelIndex(1,1,1,1,1,1) of chunk 1
GeomStar ==
    {VIFrom(1, 1, 1, 1, 1, 1), VIFrom(1, 1, 1, 0, 1, 1), VIFrom(1, 1, 1, 2, 1, 1),
     VIFrom(1, 1, 1, 1, 0, 1), VIFrom(1, 1, 1, 1, 2, 1), VIFrom(1, 1, 1, 1, 1, 0),
     VIFrom(1, 1, 1, 1, 1, 2)}

InitGeom ==
    /\ KeyIdle /\ DictIdle /\ LayerIdle /\ ExpectIdle
    /\ IndicesIdle /\ TmpKeyIdle /\ LastIdle /\ RcIdle

NextGeom ==
    \/ \E vi \in GeomStar : BufferFresh /\ SetBitVoxel(1, vi)
    \/ \E vi \in GeomStar : BufferFresh /\ UnsetBitVoxel(1, vi)
    \/ ComputeIndices(1)
    \/ \E flipped \in BOOLEAN : GetIndices(flipped)
    \/ GeometryReset

SpecGeom == InitGeom /\ [][NextGeom]_vars

\* the number of face bits set in the entries of a face buffer
RECURSIVE FaceTotal(_, _)
FaceTotal(buf, todo) ==
    IF todo = {} THEN 0
    ELSE LET i == CHOOSE j \in todo : TRUE
         IN  Cardinality({d \in 0 .. 5 : FaceBit(buf[i], d) = 1}) + FaceTotal(buf, todo \ {i})

\* C6: the array returned by getIndices(F), with either winding, has 6 times the
\* total popcount of F's entries as its length, every slot of it is written, and no
\* write goes past its end.
C6_IndexCount ==
    last.op = "getIndices" =>
        /\ last.res.n = 6 * FaceTotal(indices, DOMAIN indices)
        /\ last.res.counter = last.res.n
        /\ DOMAIN last.res.w = 0 .. (last.res.n - 1)

\* the full star was solved and expanded with flipped winding: 30 faces, 180 indices
C6_Witness ==
    /\ last.op = "getIndices"
    /\ last.c = 1
    /\ expect[1] = GeomStar
    /\ last.res.n = 180
    /\ last.res.counter = 180

-----------------------------------------------------------------------------
(* Raycasts through a world of a few set bitvoxels                         *)

\* the end points of the segments, per axis, in units of 1 / RayScale
RayPoints == {-1, 1, 2, 3} \X {-1, 1, 2, 3} \X {1, 3}

\* the extents |x2 - x1| of the segments, in units of 1 / RayScale: 0, the powers
\* of two, for which the quotients and sums of the raycaster are exact, and 7,
\* for which they are rounded
RayExtents == {0, 1, 2, 4, 7}

Near == <<0, 0, 0>>

RaySegs ==
    {<<p[1], p[2], p[3], q[1], q[2], q[3]>> : <<p, q>> \in
        {pq \in RayPoints \X RayPoints :
            \A a \in 1 .. 3 : RayExtent(pq[1][a], pq[2][a], 0).lo \in RayExtents}}

\* segments of extent 1 along x and 3.5 along y that end on a corner of their
\* end cell: (0, 4.5, 0.5) -> (1, 1, 0.5) and (-3, 8.5, 0.5) -> (-2, 5, 0.5)
RayOddSegs == {<<0, 9, 1, 2, 2, 1>>, <<-6, 17, 1, -4, 10, 1>>}

\* segments along x whose end point lies 2^32 further along x than written
FarX == <<1, 0, 0>>
RayFarSegs ==
    {<<x1, y, 1, x2, y, 1>> : <<x1, x2, y>> \in {-1, 1, 3} \X {-1, 1, 3} \X {1, 3}}

\* the cells whose bitvoxel may be set: three in chunk 1, one in chunk 2
RayCells == {<<0, 0, 0>>, <<1, 1, 0>>, <<-1, 0, 0>>, <<1, 0, 1>>}

\* the cells of the world along an axis: chunk coordinates wrap at 1024
WORLD_CELLS == 1024 * CHUNK_DIMS * CHUNK_DIMS

\* the chunk coordinates and the cell in the chunk of a world cell
CellChunkCoords(cell) == [a \in 1 .. 3 |-> (cell[a] \div 16) % 1024]
CellInChunk(cell) == [a \in 1 .. 3 |-> cell[a] % 16]
CellChunk(cell) == CHOOSE c \in ChunkIds : ChunkCoords[c] = CellChunkCoords(cell)

\* setBitVoxel on the chunk of every cell of a set
RECURSIVE SetCells(_, _)
SetCells(L, todo) ==
    IF todo = {} THEN L
    ELSE LET cell == CHOOSE x \in todo : TRUE
         IN  SetCells([L EXCEPT ![CellChunk(cell)] = LayerSet(@, KeyOfCell(CellInChunk(cell)))],
                      todo \ {cell})

\* chunks 1 and 2 inserted, the bitvoxels of some of the cells set
InitRay ==
    /\ dict = WorldInsert(WorldInsert(<<>>, ChunkKey(1), 1), ChunkKey(2), 2)
    /\ \E S \in SUBSET RayCells :
          /\ layer = SetCells([c \in {TMP_CHUNK} \cup ChunkIds |->
                                  IF c = TMP_CHUNK THEN TmpChunkLayer ELSE NewLayer], S)
          /\ expect = [c \in ChunkIds |->
                          {KeyOfCell(CellInChunk(cell)) : cell \in {x \in S : CellChunk(x) = c}}]
    /\ KeyIdle /\ IndicesIdle /\ TmpKeyIdle /\ LastIdle /\ RcIdle

NextRay ==
    \/ \E seg \in RaySegs : StartRaycast(seg, Near)
    \/ \E seg \in RayOddSegs : StartRaycast(seg, Near)
    \/ \E seg \in RayFarSegs : StartRaycast(seg, FarX)
    \/ (rc.iters < MaxIters /\ RayStep)

SpecRay == InitRay /\ [][NextRay]_vars

\* a near segment is sampled at the parameters u / RaySamples, which include every
\* parameter at which it crosses a cell boundary and a parameter between any two:
\* twice the least common multiple of the extents
RaySamples ==
    LET common == {m \in 1 .. 64 : \A n \in RayExtents \ {0} : m % n = 0}
    IN  2 * (CHOOSE m \in common : \A n \in common : m <= n)
SamplePos(seg, a, u) == RaySamples * seg[a] + u * (seg[a + 3] - seg[a])
CellAt(seg, u) == [a \in 1 .. 3 |-> SamplePos(seg, a, u) \div (RaySamples * RayScale)]

\* the bitvoxel of a world cell is set in a chunk stored in the world
CellOn(cell) ==
    \E c \in ChunkIds :
        /\ ChunkCoords[c] = CellChunkCoords(cell)
        /\ c \in StoredUnder(ChunkKey(c))
        /\ KeyOfCell(CellInChunk(cell)) \in expect[c]

\* the WorldIndex of a world cell
IndexOfCell(cell) ==
    [hit |-> TRUE,
     chunk |-> MortonFrom(CellChunkCoords(cell)[1], CellChunkCoords(cell)[2], CellChunkCoords(cell)[3]),
     voxel |-> KeyOfCell(CellInChunk(cell))]

\* the first set bitvoxel among the cells that hold a point of a near segment
FirstOnNear(seg) ==
    LET us == {u \in 0 .. RaySamples : CellOn(CellAt(seg, u))}
    IN  IF us = {} THEN NoHit
        ELSE IndexOfCell(CellAt(seg, CHOOSE u \in us : \A v \in us : u <= v))

\* a segment along x longer than the world runs through every cell of the row of
\* its start cell: the first set bitvoxel is the nearest one ahead, around the world
Ahead(seg, cell) == (cell[1] - seg[1] \div RayScale) % WORLD_CELLS
FirstOnFar(seg) ==
    LET row == {cell \in RayCells : /\ CellOn(cell)
                                    /\ cell[2] = seg[2] \div RayScale
                                    /\ cell[3] = seg[3] \div RayScale}
    IN  IF row = {} THEN NoHit
        ELSE IndexOfCell(CHOOSE cell \in row :
                            \A other \in row : Ahead(seg, cell) <= Ahead(seg, other))

FirstOn(seg, far) == IF far = Near THEN FirstOnNear(seg) ELSE FirstOnFar(seg)

\* C4 as stated: for any finite segment raycast returns the WorldIndex of the first
\* set bitvoxel intersected by the segment, and absent exactly when no cell
\* intersected by the segment holds a set bitvoxel.
C4_FirstIntersected ==
    rc.pc = "done" => rc.res = FirstOn(rc.seg, rc.far)

\* the number of loop iterations the claim allows, from the start cell and the end
\* cell the raycaster computes
IterationBound(seg, far) ==
    LET span(a) == RayExtent(RayCell(seg[a], 0), RayCell(seg[a + 3], far[a]), 0).lo
    IN  span(1) + span(2) + span(3) + 1

\* C5 as stated: raycast terminates after at most |iend-i| + |jend-j| + |kend-k| + 1
\* loop iterations: a raycast that has returned ran at most that many, and one still
\* in its loop has run fewer.
C5_IterationBound ==
    /\ rc.pc = "done" => rc.iters <= IterationBound(rc.seg, rc.far)
    /\ rc.pc = "loop" => rc.iters < IterationBound(rc.seg, rc.far)

-----------------------------------------------------------------------------
(* The solver and the raycaster on a world that is built up and taken down *)
(* between the calls.  `key` holds the scalar of the key object of each    *)
(* chunk.                                                                  *)

\* the bitvoxels set and unset: cell (0, 0, 0) of chunk 1 and the cell next to it
\* across the -x face, in chunk 2
FrameVoxels == {<<1, KeyOfCell(<<0, 0, 0>>)>>, <<2, KeyOfCell(<<15, 0, 0>>)>>}

\* the chunks inserted, removed and solved
FrameChunks == {1, 2}

\* the rays cast: through both cells along x, in either direction
FrameSegs == {<<3, 1, 1, -3, 1, 1>>, <<-3, 1, 1, 3, 1, 1>>}

\* no call of raycast is under way
NoRaycast == rc.pc # "loop"

InitFrame ==
    /\ key = ChunkKeys
    /\ DictIdle /\ LayerIdle /\ ExpectIdle /\ IndicesIdle /\ TmpKeyIdle /\ LastIdle /\ RcIdle

NextFrame ==
    \/ \E p \in FrameVoxels : NoRaycast /\ SetBitVoxel(p[1], p[2])
    \/ \E p \in FrameVoxels : NoRaycast /\ UnsetBitVoxel(p[1], p[2])
    \/ \E c \in FrameChunks : NoRaycast /\ InsertChunk(c)
    \/ \E c \in FrameChunks : NoRaycast /\ RemoveChunk(c)
    \/ \E c \in FrameChunks : NoRaycast /\ ComputeIndices(c)
    \/ \E seg \in FrameSegs : StartRaycast(seg, Near)
    \/ RayStep

SpecFrame == InitFrame /\ [][NextFrame]_vars

\* the step is a call of computeIndices, or a part of a call of raycast
SolverOrRaycastStep ==
    \/ last'.op = "computeIndices" /\ <<last, indices, tmpKey, key>>' # <<last, indices, tmpKey, key>>
    \/ rc' # rc

\* C20: a call to the face solver (computeIndices) or to the raycaster (raycast)
\* leaves unchanged the bitvoxel state of every chunk, the key of every chunk and
\* the world's mapping from keys to chunks.
C20_WorldReadOnly ==
    [][SolverOrRaycastStep => (layer' = layer /\ key' = key /\ dict' = dict)]_vars

\* both chunks are stored with their bitvoxels set, chunk 1 has been solved, and a
\* ray has returned the bitvoxel of chunk 1
C20_Witness ==
    /\ rc.pc = "done"
    /\ rc.res = Hit(WorldIndexFrom(0, 0, 0))
    /\ DOMAIN indices = {KeyOfCell(<<0, 0, 0>>)}
    /\ WorldGet(dict, ChunkKey(1)) = 1
    /\ WorldGet(dict, ChunkKey(2)) = 2
    /\ \A p \in FrameVoxels : ChunkGetBitVoxel(layer, p[1], p[2]) = 1
    /\ key = ChunkKeys

-----------------------------------------------------------------------------
(* VoxelChunk32: the per-voxel metadata slots                              *)

\* VoxelChunk.SIZE
CHUNK_SIZE == CHUNK_DIMS * CHUNK_DIMS * CHUNK_DIMS

\* new Uint16Array(new ArrayBuffer((VoxelChunk.SIZE * 32) / 8)): the number of
\* elements of _metaData
META32_LENGTH == ((CHUNK_SIZE * 32) \div 8) \div 2

\* the value an element of a Uint16Array takes on a store of a non-negative integer
ToUint16(v) == v % 65536

\* VoxelChunk32.setMetaData: _metaData[key.vKey] = meta; the array is kept as the
\* map of the elements written, a store outside the array is ignored
Chunk32SetMetaData(arr, vi, meta) ==
    IF VIvKey(vi) < META32_LENGTH
    THEN (VIvKey(vi) :> ToUint16(meta)) @@ arr
    ELSE arr

\* VoxelChunk32.getMetaData: _metaData[key.vKey]; an element never written is 0
Chunk32GetMetaData(arr, vi) ==
    IF VIvKey(vi) \in DOMAIN arr THEN arr[VIvKey(vi)] ELSE 0

\* the voxels addressed: the first, two bitvoxels of one voxel, and the last
MetaVoxels ==
    {VIFrom(0, 0, 0, 0, 0, 0), VIFrom(1, 2, 3, 0, 0, 0), VIFrom(1, 2, 3, 3, 1, 2),
     VIFrom(3, 3, 3, 3, 3, 3)}

\* the metadata passed: values of 16 bits and less, and values that need more
MetaValues == {0, 1111, 65535, 65536, 74565, 2147483647}

\* chunk.setMetaData(vi, meta)
SetMetaDataCall(vi, meta) ==
    /\ dict' = Chunk32SetMetaData(dict, vi, meta)
    /\ last' = [op |-> "setMetaData", c |-> vi, arg |-> meta, res |-> 0]
    /\ UNCHANGED <<key, layer, expect, indices, tmpKey, rc>>

\* new VoxelChunk32(key): every element of _metaData is 0
InitMeta ==
    /\ KeyIdle /\ DictIdle /\ LayerIdle /\ ExpectIdle /\ IndicesIdle /\ TmpKeyIdle
    /\ LastIdle /\ RcIdle

NextMeta == \E vi \in MetaVoxels, meta \in MetaValues : SetMetaDataCall(vi, meta)

SpecMeta == InitMeta /\ [][NextMeta]_vars

\* C21: the 32-bit chunk variant stores a full 32-bit slot per voxel, keyed by
\* vKey: after setMetaData(v, m), getMetaData(v) returns m, for every value m of
\* 32 bits.
C21_MetaRoundTrip ==
    last.op = "setMetaData" => Chunk32GetMetaData(dict, last.c) = last.arg

-----------------------------------------------------------------------------
(* A HashGrid and the caller's key objects.  `key` holds _size and the      *)
(* scalar each of the caller's MortonKey objects holds now, `dict` is _dict *)
(* and `last` is the list of the calls made, each with the scalar its key   *)
(* object held at the call and the result of get for every scalar just      *)
(* before it.                                                               *)

MaxAliasOps == 4

\* the caller's key objects as constructed: MortonKey.from(0, 0, 0) and
\* MortonKey.from(1023, 0, 0), one step in x apart across the wrap
AliasKeys == <<MortonFrom(0, 0, 0), MortonFrom(1023, 0, 0)>>

\* the scalars the objects can come to hold within MaxAliasOps + 1 steps
AliasScalars ==
    {MortonFrom(x, 0, 0) : x \in (0 .. (MaxAliasOps + 1)) \cup ((1022 - MaxAliasOps) .. 1023)}

\* get(k) for every scalar
AliasView(d, size) == [s \in AliasScalars |-> GridGet(d, size, s)]

\* key.incX() on a key object whose scalar the grid's nodes hold by reference: the
\* nodes set through a key of this scalar follow the object
AliasIncXLive(o) ==
    /\ Len(last) < MaxAliasOps
    /\ key' = [key EXCEPT !.objs[o] = MortonIncX(@)]
    /\ dict' = [b \in DOMAIN dict |->
                   [i \in DOMAIN dict[b] |->
                       IF dict[b][i].key = key.objs[o]
                       THEN [dict[b][i] EXCEPT !.key = MortonIncX(key.objs[o])]
                       ELSE dict[b][i]]]
    /\ last' = Append(last, [op |-> "incX", c |-> key.objs[o], arg |-> o,
                             before |-> AliasView(dict, key.size)])
    /\ UNCHANGED <<layer, expect, indices, tmpKey, rc>>

\* key.incX() on one of the caller's key objects
AliasIncX(o) ==
    /\ Len(last) < MaxAliasOps
    /\ key' = [key EXCEPT !.objs[o] = MortonIncX(@)]
    /\ last' = Append(last, [op |-> "incX", c |-> key.objs[o], arg |-> o,
                             before |-> AliasView(dict, key.size)])
    /\ UNCHANGED <<dict, layer, expect, indices, tmpKey, rc>>

\* key.decX() on one of the caller's key objects
AliasDecX(o) ==
    /\ Len(last) < MaxAliasOps
    /\ key' = [key EXCEPT !.objs[o] = MortonDecX(@)]
    /\ last' = Append(last, [op |-> "decX", c |-> key.objs[o], arg |-> o,
                             before |-> AliasView(dict, key.size)])
    /\ UNCHANGED <<dict, layer, expect, indices, tmpKey, rc>>

\* the values given to the setter x of a key object
AliasXs == {0, 1023}

\* key.x = value on one of the caller's key objects
AliasSetX(o, value) ==
    /\ Len(last) < MaxAliasOps
    /\ key' = [key EXCEPT !.objs[o] = KeyAxisSet(KeyObject("MortonKey", @), 1, value).k]
    /\ last' = Append(last, [op |-> "setX", c |-> key.objs[o], arg |-> o,
                             before |-> AliasView(dict, key.size)])
    /\ UNCHANGED <<dict, layer, expect, indices, tmpKey, rc>>

\* grid.set(key, v) with one of the caller's key objects: the node takes key.key
AliasSet(o, v) ==
    /\ Len(last) < MaxAliasOps
    /\ dict' = GridSet(dict, key.size, key.objs[o], v)
    /\ last' = Append(last, [op |-> "set", c |-> key.objs[o], arg |-> v,
                             before |-> AliasView(dict, key.size)])
    /\ UNCHANGED <<key, layer, expect, indices, tmpKey, rc>>

\* new HashGrid(), and the caller's two keys
InitAlias ==
    /\ key = [size |-> GridSize(0), objs |-> AliasKeys]
    /\ dict = <<>>
    /\ last = <<>>
    /\ LayerIdle /\ ExpectIdle /\ IndicesIdle /\ TmpKeyIdle /\ RcIdle

NextAlias ==
    \/ \E o \in DOMAIN AliasKeys, v \in GridValues : AliasSet(o, v)
    \/ \E o \in DOMAIN AliasKeys : AliasIncX(o)
    \/ \E o \in DOMAIN AliasKeys : AliasDecX(o)
    \/ \E o \in DOMAIN AliasKeys, value \in AliasXs : AliasSetX(o, value)

SpecAlias == InitAlias /\ [][NextAlias]_vars

\* the value of the latest set made while the key object held the scalar s, Null
\* if there was none
RECURSIVE LatestSetAt(_, _)
LatestSetAt(calls, s) ==
    IF calls = <<>> THEN Null
    ELSE LET call == calls[Len(calls)]
         IN  IF call.op = "set" /\ call.c = s
             THEN call.arg
             ELSE LatestSetAt(SubSeq(calls, 1, Len(calls) - 1), s)

\* C22: the grid stores the key's scalar, not a live reference: after set(k, v),
\* a mutation of the key object k leaves every stored entry as it was, and get
\* with any key whose scalar equals the scalar k had at the time of the set still
\* returns v (until a later set under that scalar).
C22_ScalarStored ==
    /\ \A s \in AliasScalars : GridGet(dict, key.size, s) = LatestSetAt(last, s)
    /\ \A n \in DOMAIN last :
           last[n].op \in {"incX", "decX", "setX"} =>
               LET after == IF n < Len(last) THEN last[n + 1].before
                            ELSE AliasView(dict, key.size)
               IN  after = last[n].before

\* set(k1, 1) at (0, 0, 0), k1.incX(), k2.incX() over the wrap onto (0, 0, 0),
\* set(k1, 2) at (1, 0, 0): k2 reads the first entry, k1's new scalar the second
C22_Witness ==
    /\ Len(last) = 4
    /\ last[1].op = "set" /\ last[1].c = MortonFrom(0, 0, 0) /\ last[1].arg = 1
    /\ last[2].op = "incX" /\ last[2].arg = 1
    /\ last[3].op = "incX" /\ last[3].arg = 2
    /\ last[4].op = "set" /\ last[4].c = MortonFrom(1, 0, 0) /\ last[4].arg = 2
    /\ key.objs = <<MortonFrom(1, 0, 0), MortonFrom(0, 0, 0)>>
    /\ GridGet(dict, key.size, key.objs[2]) = 1
    /\ GridGet(dict, key.size, key.objs[1]) = 2

-----------------------------------------------------------------------------
(* The index expander with an output array supplied by the caller          *)

\* getIndices(geometry, flipped, optres) without the length check: the values are
\* stored into optres, stores past its end are ignored
GetIndicesOutUnchecked(buf, flipped, optLength) ==
    LET values == ValuesFrom(buf, {i \in DOMAIN buf : buf[i] # 0},
                             IF flipped THEN IndicesFlippedLut ELSE IndicesLut)
        stored == IF Len(values) < optLength THEN Len(values) ELSE optLength
    IN  [err |-> "none", from |-> "optres", n |-> optLength,
         w |-> [slot \in 0 .. (stored - 1) |-> values[slot + 1]],
         counter |-> Len(values)]

\* BVXGeometry.getIndices(geometry, flipped, optres) with optres a Uint32Array of
\* optLength slots: result = optres, RangeError if its length is not
\* numberOfIndices, else the values are stored into it
GetIndicesOut(buf, flipped, optLength) ==
    LET numberOfFaces == GeometryPopCount(buf)
        numberOfIndices == numberOfFaces * 6
        filled == GetIndicesResult(buf, flipped)
    IN  IF optLength # numberOfIndices
        THEN [err |-> "RangeError", from |-> "optres", n |-> optLength,
              w |-> <<>>, counter |-> 0]
        ELSE [err |-> "none", from |-> "optres", n |-> optLength,
              w |-> filled.w, counter |-> filled.counter]

\* the lengths of the arrays the caller passes, besides the expected one: empty,
\* one face, one slot and one face more than expected, one face less
OutLengths(expected) ==
    {0, 6, expected, expected + 1, expected + 6} \cup
        (IF expected >= 6 THEN {expected - 6} ELSE {})

\* a call of getIndices with an array of optLength slots
GetIndicesOutCall(flipped, optLength) ==
    /\ last' = [op |-> "getIndicesOut", c |-> IF flipped THEN 1 ELSE 0,
                arg |-> optLength, res |-> GetIndicesOut(indices, flipped, optLength)]
    /\ UNCHANGED <<key, dict, layer, expect, indices, tmpKey, rc>>

NextGeomOut ==
    \/ \E vi \in GeomStar : BufferFresh /\ SetBitVoxel(1, vi)
    \/ \E vi \in GeomStar : BufferFresh /\ UnsetBitVoxel(1, vi)
    \/ ComputeIndices(1)
    \/ \E flipped \in BOOLEAN :
           \E optLength \in OutLengths(6 * FaceTotal(indices, DOMAIN indices)) :
               GetIndicesOutCall(flipped, optLength)
    \/ GeometryReset

SpecGeomOut == InitGeom /\ [][NextGeomOut]_vars

\* C23: when an output array is supplied to getIndices, the call fails with
\* OutOfRange whenever the array's length differs from 6 times the popcount of
\* the face masks, and succeeds using that array, every slot of it written, when
\* the lengths are equal.
C23_OutLength ==
    last.op = "getIndicesOut" =>
        LET expected == 6 * FaceTotal(indices, DOMAIN indices)
        IN  /\ last.arg # expected => last.res.err = "RangeError"
            /\ last.arg = expected =>
                   /\ last.res.err = "none"
                   /\ last.res.from = "optres"
                   /\ last.res.n = last.arg
                   /\ last.res.counter = expected
                   /\ DOMAIN last.res.w = 0 .. (expected - 1)

\* the full star was solved and expanded into an array of 180 slots
C23_Witness ==
    /\ last.op = "getIndicesOut"
    /\ expect[1] = GeomStar
    /\ last.arg = 180
    /\ last.res.err = "none"
    /\ last.res.counter = 180

-----------------------------------------------------------------------------
(* A BitArray under its per-bit operations.  A position is the pair of p    *)
(* and far that stands for p + far * 2^37, so that pos / 32 is              *)
(* p / 32 + far * 2^32; `key` holds the constructor's argument, `dict` the  *)
(* typed array.                                                            *)

\* pos < 0 and pos >= n for a position and an n below 2^31
PosNegative(p, far) == far < 0 \/ (far = 0 /\ p < 0)
PosAtLeast(p, far, n) == far > 0 \/ (far = 0 /\ p >= n)

\* (pos / BitArray.BITS_PER_ELEMENT) | 0
BitArrayIndex(p, far) == ToInt32(p \div BITS_PER_ELEMENT, far)

\* the two checks that precede every per-bit operation: TRUE is the throw
BitArrayThrows(elems, p, far) ==
    \/ PosNegative(p, far)
    \/ BitArrayIndex(p, far) >= ArrayLength(elems)

\* BitOps.setBit on a word: (data & ~mask) | ((bit << pos) & mask)
setBitWord(data, pos, bit) ==
    IF bit % 2 = 1 THEN data \cup {pos % 32} ELSE data \ {pos % 32}

\* the value a per-bit operation that does not throw returns, 0 for the writes
BitArrayValue(elems, op, p, far) ==
    LET value == LoadWord(elems, BitArrayIndex(p, far))
        b == p % BITS_PER_ELEMENT
    IN  IF op = "bitAt" THEN bitAt(value, b)
        ELSE IF op = "bitInvAt" THEN 1 - bitAt(value, b)
        ELSE 0

\* the typed array after a per-bit operation that does not throw
BitArrayStore(elems, op, p, far, bit) ==
    LET index == BitArrayIndex(p, far)
        value == LoadWord(elems, index)
        b == p % BITS_PER_ELEMENT
    IN  IF op = "setBitAt" THEN StoreWord(elems, index, setBitAt(value, b))
        ELSE IF op = "setBit" THEN StoreWord(elems, index, setBitWord(value, b, bit))
        ELSE IF op = "unsetBitAt" THEN StoreWord(elems, index, unsetBitAt(value, b))
        ELSE IF op = "toggleBitAt" THEN StoreWord(elems, index, toggleBitAt(value, b))
        ELSE elems

BitArrayOps == {"bitAt", "bitInvAt", "setBitAt", "setBit", "unsetBitAt", "toggleBitAt"}

\* the positions passed: below the array, both ends of its two words, the first
\* bit past each, and the same 2^37 further on
BitPositions == {-1, 0, 31, 32, 63, 64}
BitFars == {0, 1}

\* bits.<op>(pos) or bits.setBit(pos, bit)
BitArrayCall(op, p, far, bit) ==
    /\ dict' = IF BitArrayThrows(dict, p, far) THEN dict
               ELSE BitArrayStore(dict, op, p, far, bit)
    /\ last' = [op |-> op, c |-> p, arg |-> far,
                res |-> [thrown |-> BitArrayThrows(dict, p, far),
                         value |-> IF BitArrayThrows(dict, p, far) THEN 0
                                   ELSE BitArrayValue(dict, op, p, far),
                         before |-> dict]]
    /\ UNCHANGED <<key, layer, expect, indices, tmpKey, rc>>

\* new BitArray(elements)
InitBitArray ==
    /\ \E elements \in {0, 1, 2} :
           /\ key = [elements |-> elements]
           /\ dict = NewElements(elements)
    /\ LayerIdle /\ ExpectIdle /\ IndicesIdle /\ TmpKeyIdle /\ LastIdle /\ RcIdle

NextBitArray ==
    \E op \in BitArrayOps, p \in BitPositions, far \in BitFars, bit \in {0, 1} :
        BitArrayCall(op, p, far, bit)

SpecBitArray == InitBitArray /\ [][NextBitArray]_vars

\* C24: on a BitArray of N words each per-bit operation fails with OutOfRange
\* whenever pos < 0 or pos >= 32 * N, and succeeds for every pos in [0, 32 * N).
C24_BitArrayRange ==
    last.op \in BitArrayOps =>
        (last.res.thrown <=>
            (PosNegative(last.c, last.arg)
                \/ PosAtLeast(last.c, last.arg, 32 * ArrayLength(dict))))

-----------------------------------------------------------------------------
(* BitOps.maskForBits on every width, and the mask applied to a word       *)

\* the widths asked for
MaskWidths == 0 .. 32

\* the words masked: one bit, alternating bits, and every bit below the sign
MaskData == {1, 1431655765, 2147483647}

\* the bits set in a 32-bit value, bit 31 being the sign
BitsOf(m) == {b \in 0 .. 31 : IF b = 31 THEN m < 0 ELSE (m \div (2 ^ b)) % 2 = 1}

\* mask = BitOps.maskForBits(n), then data & mask
MaskForBitsCall ==
    /\ key.op = "new"
    /\ key' = [key EXCEPT !.op = "maskForBits",
                          !.k = [mask |-> maskForBits(key.in[1]),
                                 masked |-> BitAnd(key.in[2], maskForBits(key.in[1]))]]
    /\ UNCHANGED <<dict, layer, expect, indices, tmpKey, last, rc>>

\* the arguments of the call to come
InitMask ==
    /\ \E n \in MaskWidths, data \in MaskData :
           key = [in |-> <<n, data>>, op |-> "new", k |-> [mask |-> 0, masked |-> 0]]
    /\ DictIdle /\ LayerIdle /\ ExpectIdle /\ IndicesIdle /\ TmpKeyIdle /\ LastIdle /\ RcIdle

NextMask == MaskForBitsCall

SpecMask == InitMask /\ [][NextMask]_vars

\* C25: maskForBits(n) returns the value with exactly the low n bits set, for
\* every n in 0..32 (all 32 bits for n = 32), so that masking a word with it keeps
\* the low n bits of the word.
C25_MaskForBits ==
    key.op = "maskForBits" =>
        /\ BitsOf(key.k.mask) = 0 .. (key.in[1] - 1)
        /\ BitsOf(key.k.masked) = BitsOf(key.in[2]) \cap (0 .. (key.in[1] - 1))

-----------------------------------------------------------------------------
(* The single-axis operations of MortonKey, on the key objects of SpecKeyOps *)

\* the sum of the steps made along an axis by a list of inc / dec calls
RECURSIVE StepsAlong(_, _)
StepsAlong(ops, axis) ==
    IF ops = <<>> THEN 0
    ELSE (IF Head(ops)[2] # axis THEN 0 ELSE IF Head(ops)[1] = "inc" THEN 1 ELSE -1)
             + StepsAlong(Tail(ops), axis)

\* C26: each single-axis operation of a Morton key changes only its own axis:
\* incA adds 1 and decA subtracts 1 to component A modulo 1024 (1023 wraps to 0,
\* 0 wraps to 1023) and the other two components are unchanged, for every key
\* and every axis.
C26_SingleAxis ==
    (/\ key.a.kind = "MortonKey"
     /\ key.ops # <<>>
     /\ \A n \in DOMAIN key.ops : key.ops[n][1] \in {"inc", "dec"})
        => KeyXYZ(key.cur)
               = [n \in 1 .. 3 |-> (KeyXYZ(key.a)[n] + StepsAlong(key.ops, n)) % 1024]

\* incY then decX on the key of (0, 511, 1023): y carried over nine bits to 512,
\* x wrapped to 1023, z stayed 1023
C26_Witness ==
    /\ key.a = KeyObject("MortonKey", MortonFrom(0, 511, 1023))
    /\ key.ops = <<<<"inc", 2>>, <<"dec", 1>>>>
    /\ KeyXYZ(key.cur) = <<1023, 512, 1023>>

-----------------------------------------------------------------------------
(* The cells a raycast visits, against its start and end cells             *)

\* the start cell and the end cell the raycaster computes, per axis
RayStart(r, a) == RayCell(r.seg[a], 0)
RayEnd(r, a) == RayCell(r.seg[a + 3], r.far[a])

\* c lies between a and b inclusive
Between(c, a, b) == (a <= c /\ c <= b) \/ (b <= c /\ c <= a)

\* the distance of the cell of a raycast from its end cell along an axis
ToGo(r, a) == IF RayEnd(r, a) >= r.cell[a] THEN RayEnd(r, a) - r.cell[a]
              ELSE r.cell[a] - RayEnd(r, a)

\* C27: during a raycast the cell coordinates progress monotonically toward the
\* end cell: at every loop iteration each of i, j, k lies between its start value
\* and its end value inclusive, changes only by one step toward the end value,
\* and is never stepped once it equals its end value.
C27_MonotoneCells ==
    [][/\ rc'.pc \in {"loop", "done"} =>
              \A a \in 1 .. 3 : Between(rc'.cell[a], RayStart(rc', a), RayEnd(rc', a))
       /\ (rc.pc = "loop" /\ rc'.cell # rc.cell) =>
              \E a \in 1 .. 3 :
                  /\ rc.cell[a] # RayEnd(rc, a)
                  /\ ToGo(rc', a) = ToGo(rc, a) - 1
                  /\ \A b \in (1 .. 3) \ {a} : rc'.cell[b] = rc.cell[b]]_vars

-----------------------------------------------------------------------------
(* The keys a call on a HashGrid does not name, on the grids of SpecGrid   *)

\* get(k) for every key right after the n-th call made
GridViewAfter(n) ==
    IF n < Len(last) THEN last[n + 1].before ELSE GridView(dict, key.size)

\* C28: set(k, v) and remove(k) never change the result of get(k') for a key k'
\* whose scalar differs from k's, even when both scalars select the same bucket
\* and whatever the order in which the colliding keys were inserted and removed.
C28_OtherKeysKept ==
    \A n \in DOMAIN last :
        \A k \in GridKeys \ {last[n].c} : GridViewAfter(n)[k] = last[n].before[k]

\* set(0, 1), set(2, 2), set(1024, 1), remove(2) on a grid of GridBuckets buckets:
\* the node in the middle of the bucket is removed, the nodes around it stay
C28_Witness ==
    /\ key.size = GridBuckets
    /\ Len(last) = 4
    /\ last[1].op = "set" /\ last[1].c = 0 /\ last[1].arg = 1
    /\ last[2].op = "set" /\ last[2].c = 2 /\ last[2].arg = 2
    /\ last[3].op = "set" /\ last[3].c = 1024 /\ last[3].arg = 1
    /\ last[4].op = "remove" /\ last[4].c = 2 /\ last[4].res = TRUE
    /\ Len(dict[0]) = 2
    /\ GridGet(dict, key.size, 0) = 1
    /\ GridGet(dict, key.size, 1024) = 1
    /\ GridGet(dict, key.size, 2) = Null

-----------------------------------------------------------------------------
(* WorldIndex.from on world coordinates of either sign                     *)

\* the cells of the world along an axis before the chunk key wraps
WORLD_SPAN == 1024 * CHUNK_DIMS * CHUNK_DIMS

\* the world coordinates passed: around 0, around one and two chunks below 0,
\* around one world span below 0, and the first and last cell of the span above 0
SignedCoords == {-16385, -16384, -17, -16, -1, 0, 3, 16383}

\* WorldIndex.from(worldX, worldY, worldZ) on the arguments drawn
WorldIndexFromSigned ==
    /\ key.op = "new"
    /\ key' = [key EXCEPT !.op = "WorldIndex.from",
                          !.k = WorldIndexFrom(key.in[1], key.in[2], key.in[3])]
    /\ UNCHANGED <<dict, layer, expect, indices, tmpKey, last, rc>>

\* new WorldIndex(), and the arguments of the call to come
InitWorldWrap ==
    /\ \E in \in [1 .. 3 -> SignedCoords] :
           key = [in |-> in, op |-> "new", k |-> [chunk |-> 0, voxel |-> 0]]
    /\ DictIdle /\ LayerIdle /\ ExpectIdle /\ IndicesIdle /\ TmpKeyIdle /\ LastIdle /\ RcIdle

NextWorldWrap == WorldIndexFromSigned

SpecWorldWrap == InitWorldWrap /\ [][NextWorldWrap]_vars

\* WorldIndex.from of every triple of the coordinates passed
SignedIndex ==
    [v \in [1 .. 3 -> SignedCoords] |-> WorldIndexFrom(v[1], v[2], v[3])] @@ <<>>

\* C29: for all integer world coordinates, negative ones included, WorldIndex.from
\* agrees with floor division followed by key wrapping: from(w) equals
\* from(w mod 16384) on each axis, two cells map to the same (chunk key, voxel
\* index) pair only if they are congruent modulo 16384 on every axis, and w and
\* w + 16 get the same voxel index in adjacent chunks.
C29_SignedWrap ==
    key.op = "WorldIndex.from" =>
        LET w == key.in
            chunk == <<MortonX(key.k.chunk), MortonY(key.k.chunk), MortonZ(key.k.chunk)>>
            next == WorldIndexFrom(w[1] + 16, w[2] + 16, w[3] + 16)
        IN  /\ chunk = [n \in 1 .. 3 |-> (w[n] \div 16) % 1024]
            /\ VIComponents(key.k.voxel)
                   = <<(w[1] % 16) \div 4, (w[2] % 16) \div 4, (w[3] % 16) \div 4,
                       w[1] % 4, w[2] % 4, w[3] % 4>>
            /\ key.k = WorldIndexFrom(w[1] % WORLD_SPAN, w[2] % WORLD_SPAN, w[3] % WORLD_SPAN)
            /\ \A v \in DOMAIN SignedIndex :
                   SignedIndex[v] = key.k =>
                       \A n \in 1 .. 3 : v[n] % WORLD_SPAN = w[n] % WORLD_SPAN
            /\ next.voxel = key.k.voxel
            /\ <<MortonX(next.chunk), MortonY(next.chunk), MortonZ(next.chunk)>>
                   = [n \in 1 .. 3 |-> (chunk[n] + 1) % 1024]

\* from(-1, -17, -16384): chunk (1023, 1022, 0), voxel (3, 3, 0), bitvoxel (3, 3, 0)
C29_Witness ==
    /\ key.op = "WorldIndex.from"
    /\ key.in = <<-1, -17, -16384>>
    /\ key.k.chunk = MortonFrom(1023, 1022, 0)
    /\ key.k.voxel = VIFrom(3, 3, 0, 3, 3, 0)

-----------------------------------------------------------------------------
(* A VoxelIndex obtained through its public interface, and the bitvoxel    *)
(* operations of a chunk called with it.  key.k is the _key field of the   *)
(* index in hand, key.op the call that produced it.                        *)

\* the calls made in one behaviour
MaxIndexOps == 3

\* the raw keys passed to the constructor: both ends of 0..4095, the first
\* value above it, a value below it and a value whose low 12 bits are not 0
RawIndexKeys == {-1, 0, 4095, 4096, 4165}

\* the components passed to from and to the setters
IndexInputs == {-1, 2}

\* the arguments of the calls of from
IndexTuples == {<<-1, -1, -1, -1, -1, -1>>, <<2, 0, 7, -1, 0, 2>>}

\* the chunk whose layer the operations address
IndexChunk == CHOOSE c \in ChunkIds : TRUE

\* new VoxelIndex(key)
IndexNew(raw) ==
    /\ last.arg < MaxIndexOps
    /\ key' = [key EXCEPT !.op = "new VoxelIndex", !.k = ToInt32(raw, 0)]
    /\ last' = [last EXCEPT !.arg = @ + 1]
    /\ UNCHANGED <<dict, layer, expect, indices, tmpKey, rc>>

\* VoxelIndex.from(vx, vy, vz, bx, by, bz)
IndexFrom(c) ==
    /\ last.arg < MaxIndexOps
    /\ key' = [key EXCEPT !.op = "VoxelIndex.from",
                          !.k = VIFrom(c[1], c[2], c[3], c[4], c[5], c[6])]
    /\ last' = [last EXCEPT !.arg = @ + 1]
    /\ UNCHANGED <<dict, layer, expect, indices, tmpKey, rc>>

\* the setters vx .. bz of the index in hand
IndexSetComponent(n, value) ==
    /\ last.arg < MaxIndexOps
    /\ LET c == [VIComponents(key.k) EXCEPT ![n] = value]
       IN  key' = [key EXCEPT !.op = "VoxelIndex.set",
                              !.k = VIFrom(c[1], c[2], c[3], c[4], c[5], c[6])]
    /\ last' = [last EXCEPT !.arg = @ + 1]
    /\ UNCHANGED <<dict, layer, expect, indices, tmpKey, rc>>

\* the key setter of the index in hand
IndexSetKey(value) ==
    /\ last.arg < MaxIndexOps
    /\ key' = [key EXCEPT !.op = "VoxelIndex.key", !.k = VISetKey(value)]
    /\ last' = [last EXCEPT !.arg = @ + 1]
    /\ UNCHANGED <<dict, layer, expect, indices, tmpKey, rc>>

\* a.copy(b) and b.clone(): the index in hand is the one that took b's _key
IndexCopy(how) ==
    /\ last.arg < MaxIndexOps
    /\ key' = [key EXCEPT !.op = how, !.k = ToInt32(key.k, 0)]
    /\ last' = [last EXCEPT !.arg = @ + 1]
    /\ UNCHANGED <<dict, layer, expect, indices, tmpKey, rc>>

\* whether a bitvoxel operation of the chunk throws on the index k: set, unset,
\* toggle and get address bit k of the layer, fill, empty and count the two
\* words of voxel vKey
ChunkOpThrows(L, op, k) ==
    IF op \in {"setBitVoxel", "unsetBitVoxel", "toggleBitVoxel", "getBitVoxel"}
    THEN ~BitArrayInRange(L, k)
    ELSE FALSE

\* the layer after a bitvoxel operation of the chunk
ChunkOpLayer(L, op, k) ==
    CASE op = "setBitVoxel" -> LayerSet(L, k)
      [] op = "unsetBitVoxel" -> LayerUnset(L, k)
      [] op = "toggleBitVoxel" -> LayerToggle(L, k)
      [] op = "fillVoxel" -> LayerFill(L, k)
      [] op = "emptyVoxel" -> LayerEmpty(L, k)
      [] OTHER -> L

\* what getBitVoxel and getBitVoxelCount return (0 for the other operations)
ChunkOpValue(L, op, k) ==
    CASE op = "getBitVoxel" -> LayerGet(L, k)
      [] op = "getBitVoxelCount" -> LayerCount(L, k)
      [] OTHER -> 0

ChunkOps ==
    {"setBitVoxel", "unsetBitVoxel", "toggleBitVoxel", "getBitVoxel",
     "fillVoxel", "emptyVoxel", "getBitVoxelCount"}

\* chunk.<op>(index) on the index in hand
ChunkOpCall(op) ==
    /\ last.arg < MaxIndexOps
    /\ layer' = [layer EXCEPT ![IndexChunk] = ChunkOpLayer(@, op, key.k)]
    /\ last' = [op |-> op, c |-> key.k, arg |-> last.arg + 1,
                res |-> [thrown |-> ChunkOpThrows(layer[IndexChunk], op, key.k),
                         value |-> ChunkOpValue(layer[IndexChunk], op, key.k)]]
    /\ UNCHANGED <<key, dict, expect, indices, tmpKey, rc>>

\* new VoxelIndex() and a new chunk
InitIndexOps ==
    /\ key = [in |-> <<0, 0, 0>>, op |-> "new VoxelIndex", k |-> 0]
    /\ DictIdle /\ LayerIdle /\ ExpectIdle /\ IndicesIdle /\ TmpKeyIdle /\ LastIdle /\ RcIdle

NextIndexOps ==
    \/ \E raw \in RawIndexKeys : IndexNew(raw)
    \/ \E c \in IndexTuples : IndexFrom(c)
    \/ \E n \in 1 .. 6, value \in IndexInputs : IndexSetComponent(n, value)
    \/ \E value \in RawIndexKeys : IndexSetKey(value)
    \/ \E how \in {"copy", "clone"} : IndexCopy(how)
    \/ \E op \in ChunkOps : ChunkOpCall(op)

SpecIndexOps == InitIndexOps /\ [][NextIndexOps]_vars

\* C30: the bitvoxel operations of a chunk (set, unset, toggle, get, fill,
\* empty, count) never fail with an out-of-range error: every VoxelIndex
\* obtained through the public interface (the constructor with a raw key, from,
\* the component setters, the key setter, copy, clone) has its key in 0..4095,
\* and every such key addresses a bit inside the 128 words of the layer.
C30_NoOutOfRange ==
    /\ key.k \in 0 .. 4095
    /\ \A k \in 0 .. 4095 : BitArrayInRange(layer[IndexChunk], k)
    /\ last.op \in ChunkOps => ~last.res.thrown

====
